---- MODULE Spec2Model ----
(***************************************************************************)
(* A model of the example programs of the design-pattern lectures and of   *)
(* the publishing workflow.  Every lecture's example has its own group of  *)
(* variables and its own specification; the groups do not interact.       *)
(***************************************************************************)
EXTENDS Integers, Sequences, FiniteSets, TLC

(***************************************************************************)
(* Bounds of the model.                                                    *)
(***************************************************************************)
\* Logger() calls made by the client in one run of the Singleton example.
MaxCalls == 2
\* log() calls that reach the file, over all runs.
MaxLog == 2
\* Runs (processes) of the Singleton example.
MaxRuns == 2
\* VideoProxy objects the client constructs.
MaxProxies == 2
\* play() calls the client makes, over all proxies.
MaxPlays == 4
\* Pushes to the repository.
MaxPushes == 3
\* ProductPrototype objects (constructed or cloned).
MaxProducts == 2
\* Changes the client makes to attributes of products.
MaxWrites == 2

\* RealSubject objects the client constructs.
MaxSubjects == 2
\* Proxy objects the client constructs.
MaxGuards == 2
\* request() calls the client makes, on real subjects and on proxies.
MaxRequests == 3

\* add() calls the client makes, over all directories.
MaxAdds == 3
\* remove() calls the client makes, over all directories.
MaxRemoves == 1
\* show_details() calls the client makes.
MaxShows == 1

\* Beverage objects (Espresso and decorators) the client constructs.
MaxBeverages == 4

\* Employees the hiring managers create.
MaxEmployees == 2

\* Adaptee and EuropeanSocket objects the client constructs.
MaxAdaptees == 2
\* Adapter and SocketAdapter objects the client constructs.
MaxAdapters == 2
\* request() and request_power() calls the client makes.
MaxAnswers == 3

\* MealBuilder objects the client constructs.
MaxMealBuilders == 2
\* prepare_veg_meal() and prepare_non_veg_meal() calls the client makes.
MaxMeals == 4

\* NewsSubscriber objects the client constructs.
MaxObservers == 2
\* registerObserver, removeObserver and freshNewsAvailable calls, the
\* registrations made by constructors included.
MaxNewsCalls == 5

\* Observers added to the Observable.
MaxWatchers == 2
\* setChanged and notifyObservers calls on the Observable.
MaxObservableCalls == 4

\* Car objects the client constructs.
MaxCars == 2
\* setFuelType and setSeatNumber calls the client makes, over all cars.
MaxCarCalls == 3

\* TV and Radio objects the client constructs.
MaxDevices == 2
\* RemoteControl objects the client constructs.
MaxRemotes == 2
\* power_on and power_off calls the client makes, over all remotes.
MaxPowerCalls == 3

\* Threads that call Logger().
MaxThreads == 2
\* Logger() calls each thread makes.
MaxThreadCalls == 2

(***************************************************************************)
(* Values shared by the examples.                                          *)
(***************************************************************************)
\* Python's None, where the other values are object ids (1, 2, ...).
None == 0
\* The attributes of an object that has none yet (an empty __dict__).
NoAttrs == <<>>
\* The newline character that log() appends.
NL == "\n"

RECURSIVE Concat(_)
\* The concatenation of a sequence of sequences.
Concat(ss) == IF ss = <<>> THEN <<>> ELSE Head(ss) \o Concat(Tail(ss))

IsPrefix(s, t) == Len(s) <= Len(t) /\ SubSeq(t, 1, Len(s)) = s

VARIABLES
    \* ---- Singleton: docs/lectures/singleton.md ----
    instance,     \* Logger._instance: None or the id of a Logger object
    loggers,      \* the Logger objects of this process, by id: their attributes
    files,        \* the file objects of this process, by handle: [closed, buffer]
    disk,         \* application.log on disk: [exists, content (characters)]
    refs,         \* what the Logger() calls of this run returned, in call order
    newCalls,     \* Logger() calls made in this run (the raising ones included)
    createdBy,    \* the calls (by number) that ran super().__new__(cls)
    openedBy,     \* the calls (by number) that called open("application.log", "a")
    logged,       \* the log() calls of this run that returned, in order: [via, message]
    lastResult,   \* how the last call ended: "ok" or the exception it raised
    runStart,     \* application.log as it was at the start of each run so far
    runEnd        \* per finished run: [opened, closed, exit, msgs]

loggerVars == <<instance, loggers, files, disk, refs, newCalls, createdBy,
                openedBy, logged, lastResult, runStart, runEnd>>

VARIABLES
    \* ---- Proxy (video): docs/lectures/composite.md ----
    proxies,      \* the VideoProxy objects, by id: [filename, real_video]
    videos,       \* the RealVideo objects, by id: [filename]
    output,       \* what the video classes printed, in order: [event, video, filename, by]
    playCalls     \* the play() calls made on proxies, in order (the proxy's id)

videoVars == <<proxies, videos, output, playCalls>>

VARIABLES
    \* ---- Publishing workflow: .github/workflows/publish.yml ----
    pushes,       \* the pushes so far, in order: the branch pushed to
    runs,         \* the workflow runs, by number: [push, status, step, running, log]
    deployments   \* the runs whose deployment step succeeded, in order

publishVars == <<pushes, runs, deployments>>

VARIABLES
    \* ---- Prototype: docs/lectures/prototype.md ----
    products,     \* the ProductPrototype objects, by id: [name, price]
    lists,        \* the list objects used as attribute values, by id: their elements
    clones,       \* the clone() calls so far: [src, dst]
    writes,       \* changes of attributes made so far
    lastOp        \* the last operation: [op, target, result]

protoVars == <<products, lists, clones, writes, lastOp>>

VARIABLES
    \* ---- Proxy (access control): docs/lectures/composite.md ----
    realSubjects, \* the number of RealSubject objects (ids 1, 2, ...; no attributes)
    guards,       \* the Proxy objects, by id: [real_subject]
    requests,     \* the request() calls of the client, in order: [on, obj]
    printed       \* the lines printed, in order: [line, obj, call]

subjectVars == <<realSubjects, guards, requests, printed>>

VARIABLES
    \* ---- Composite: docs/lectures/composite.md ----
    components,   \* the File and Directory objects, by id: [kind, name(, components)]
    added,        \* the add() calls so far, in order: [dir, component]
    fsCalls,      \* how many other calls the client made so far: [remove, show]
    shown,        \* the last show_details() call: [root, lines], a line being [kind, name, id]
                  \* (no lines are recorded of a call that raised)
    fsResult      \* how the last call ended: "ok" or the exception it raised

fsVars == <<components, added, fsCalls, shown, fsResult>>

VARIABLES
    \* ---- Decorator: docs/lectures/adapter.md ----
    beverages,    \* the Beverage objects, by id: [kind(, beverage)]
    served        \* the last line the client printed: [beverage, description, cost]

beverageVars == <<beverages, served>>

VARIABLES
    \* ---- Factory method: the employee hiring system ----
    employees,    \* the Employee objects, by id: [class, name, salary]
    hired,        \* the make_employee calls so far: [manager, name, salary, employee]
    bonus         \* the last employee asked: [employee, bonus, type_name]

hiringVars == <<employees, hired, bonus>>

VARIABLES
    \* ---- Adapter: docs/lectures/adapter.md ----
    adaptees,     \* the Adaptee and EuropeanSocket objects, by id: [class]
    adapters,     \* the Adapter and SocketAdapter objects, by id: [class, adaptee]
                  \* or [class, european_socket]
    invoked,      \* per adaptee or socket: how often its method has been called
    answers       \* the client's calls so far, in order: [adapter, value]

adapterVars == <<adaptees, adapters, invoked, answers>>

VARIABLES
    \* ---- Builder: docs/lectures/adapter.md ----
    mealProducts, \* the Product objects, by id: [part1, part2, part3]
    builders,     \* the Builder objects, by id: [product]
    mealBuilders, \* the MealBuilder objects, by id: [builder]
    meals         \* what the prepare_ calls returned, in order: [by, method, product]

mealVars == <<mealProducts, builders, mealBuilders, meals>>

VARIABLES
    \* ---- Observer: NewsPublisher implements Subject ----
    subscribers,  \* NewsPublisher.subscribers: the list of observers (ids)
    observers,    \* the number of NewsSubscriber objects (ids 1, 2, ...)
    newsCalls,    \* the calls on the publisher so far, in order: [op, obs]
    updates       \* the update() calls so far, in order: [obs, call], call being
                  \* the number of the freshNewsAvailable call in newsCalls

newsVars == <<subscribers, observers, newsCalls, updates>>

VARIABLES
    \* ---- Observer: the pseudo-code of java.util.Observable ----
    changed,      \* the flag that setChanged sets and notifyObservers tests
    chaged,       \* the name notifyObservers assigns to: "unset" or "false"
    watchers,     \* the observers of the Observable (ids)
    observableCalls \* the calls so far, in order: [op, arg, updated], updated
                  \* being the observers whose update the call called

observableVars == <<changed, chaged, watchers, observableCalls>>

VARIABLES
    \* ---- Strategy: prev/strategy.md ----
    cars,         \* the Car objects, by id: [fuelType, seatNumber], each the class
                  \* of the (stateless) behaviour object the field refers to
    carCalls,     \* the setter calls so far, in order: [car, op, arg]
    carRead       \* the last reading: [car, at, fuelType, seats], at being the
                  \* number of setter calls made before it

carVars == <<cars, carCalls, carRead>>

VARIABLES
    \* ---- Bridge: docs/lectures/composite.md, notebooks/bridge.ipynb ----
    devices,      \* the Device objects, by id: the class of each, "TV" or "Radio"
    remotes,      \* the RemoteControl objects, by id: [device]
    powered,      \* the calls made on remotes, in order: [remote, method]
    turned        \* the calls received by devices, in order:
                  \* [device, method, line], line being what the call printed

bridgeVars == <<devices, remotes, powered, turned>>

VARIABLES
    \* ---- Singleton, Logger() called from several threads ----
    threads,      \* by thread: [pc, calls, file, result], pc the place in
                  \* __new__ the thread is at, file the file object it opened,
                  \* result what its last finished call returned
    shared,       \* Logger._instance as the threads share it: None or an id
    made,         \* the Logger objects created, by id: [_log_file], None or
                  \* the number of the open() that gave the file object
    opens         \* the number of open("application.log", "a") calls made

threadVars == <<threads, shared, made, opens>>

vars == <<loggerVars, videoVars, publishVars, protoVars, subjectVars, fsVars,
          beverageVars, hiringVars, adapterVars, mealVars, newsVars,
          observableVars, carVars, bridgeVars, threadVars>>

\* The groups of variables an action of one example leaves alone.
notLogger == <<videoVars, publishVars, protoVars, subjectVars, fsVars,
               beverageVars, hiringVars, adapterVars, mealVars, newsVars,
               observableVars, carVars, bridgeVars, threadVars>>
notVideo == <<loggerVars, publishVars, protoVars, subjectVars, fsVars,
              beverageVars, hiringVars, adapterVars, mealVars, newsVars,
              observableVars, carVars, bridgeVars, threadVars>>
notPublish == <<loggerVars, videoVars, protoVars, subjectVars, fsVars,
                beverageVars, hiringVars, adapterVars, mealVars, newsVars,
                observableVars, carVars, bridgeVars, threadVars>>
notProto == <<loggerVars, videoVars, publishVars, subjectVars, fsVars,
              beverageVars, hiringVars, adapterVars, mealVars, newsVars,
              observableVars, carVars, bridgeVars, threadVars>>
notSubject == <<loggerVars, videoVars, publishVars, protoVars, fsVars,
                beverageVars, hiringVars, adapterVars, mealVars, newsVars,
                observableVars, carVars, bridgeVars, threadVars>>
notFs == <<loggerVars, videoVars, publishVars, protoVars, subjectVars,
           beverageVars, hiringVars, adapterVars, mealVars, newsVars,
           observableVars, carVars, bridgeVars, threadVars>>
notBeverage == <<loggerVars, videoVars, publishVars, protoVars, subjectVars,
                 fsVars, hiringVars, adapterVars, mealVars, newsVars,
                 observableVars, carVars, bridgeVars, threadVars>>
notHiring == <<loggerVars, videoVars, publishVars, protoVars, subjectVars,
               fsVars, beverageVars, adapterVars, mealVars, newsVars,
               observableVars, carVars, bridgeVars, threadVars>>
notAdapter == <<loggerVars, videoVars, publishVars, protoVars, subjectVars,
                fsVars, beverageVars, hiringVars, mealVars, newsVars,
                observableVars, carVars, bridgeVars, threadVars>>
notMeal == <<loggerVars, videoVars, publishVars, protoVars, subjectVars,
             fsVars, beverageVars, hiringVars, adapterVars, newsVars,
             observableVars, carVars, bridgeVars, threadVars>>
notNews == <<loggerVars, videoVars, publishVars, protoVars, subjectVars,
             fsVars, beverageVars, hiringVars, adapterVars, mealVars,
             observableVars, carVars, bridgeVars, threadVars>>
notObservable == <<loggerVars, videoVars, publishVars, protoVars,
                   subjectVars, fsVars, beverageVars, hiringVars,
                   adapterVars, mealVars, newsVars, carVars, bridgeVars,
                   threadVars>>
notCar == <<loggerVars, videoVars, publishVars, protoVars, subjectVars,
            fsVars, beverageVars, hiringVars, adapterVars, mealVars,
            newsVars, observableVars, bridgeVars, threadVars>>
notBridge == <<loggerVars, videoVars, publishVars, protoVars, subjectVars,
               fsVars, beverageVars, hiringVars, adapterVars, mealVars,
               newsVars, observableVars, carVars, threadVars>>
notThread == <<loggerVars, videoVars, publishVars, protoVars, subjectVars,
               fsVars, beverageVars, hiringVars, adapterVars, mealVars,
               newsVars, observableVars, carVars, bridgeVars>>

(***************************************************************************)
(* Singleton: class Logger.                                                *)
(***************************************************************************)
\* The messages the client logs.
Messages == {<<"a">>, <<"b">>}

\* What write(message + '\n') hands to the file object.
Line(message) == message \o <<NL>>

\* The text written by the log() calls ls, in order.
Lines(ls) == Concat([i \in 1..Len(ls) |-> Line(ls[i].message)])

\* What application.log may hold before the example is first run.
InitialDisks == {[exists |-> FALSE, content |-> <<>>],
                 [exists |-> TRUE, content |-> <<>>],
                 [exists |-> TRUE, content |-> <<"x", NL>>]}

\* The file on disk with the characters cs written at its end.
AppendToFile(d, cs) == [exists |-> TRUE, content |-> d.content \o cs]

\* A faulty open that truncates the file (mode "w").
OpenTruncate(d) == [exists |-> TRUE, content |-> <<>>]

\* The file on disk after open(path, "a"): created when absent, kept otherwise.
OpenAppend(d) == [exists |-> TRUE, content |-> d.content]

\* log() calls that returned, over all runs so far.
TotalLogged == Len(logged) + Len(Concat([i \in 1..Len(runEnd) |-> runEnd[i].msgs]))

InitLogger ==
    /\ instance = None
    /\ loggers = <<>>
    /\ files = <<>>
    /\ disk \in InitialDisks
    /\ refs = <<>>
    /\ newCalls = 0
    /\ createdBy = <<>>
    /\ openedBy = <<>>
    /\ logged = <<>>
    /\ lastResult = "ok"
    /\ runStart = <<disk>>
    /\ runEnd = <<>>

\* The branch of __new__ taken when _instance is None: the instance is stored
\* in the class before the file is opened; open() may raise OSError.
CreateAndOpen(openOk) ==
    LET id == Len(loggers) + 1
        h  == Len(files) + 1
    IN  /\ instance' = id
        /\ createdBy' = Append(createdBy, newCalls + 1)
        /\ openedBy' = Append(openedBy, newCalls + 1)
        /\ IF openOk
           THEN /\ disk' = OpenAppend(disk)
                /\ files' = Append(files, [closed |-> FALSE, buffer |-> <<>>])
                /\ loggers' = Append(loggers, [log_file |-> h])
                /\ refs' = Append(refs, id)
                /\ lastResult' = "ok"
           ELSE /\ loggers' = Append(loggers, NoAttrs)
                /\ lastResult' = "OSError"
                /\ UNCHANGED <<disk, files, refs>>

\* The branch of __new__ taken when _instance is set: return it.
ReturnExisting ==
    /\ refs' = Append(refs, instance)
    /\ lastResult' = "ok"
    /\ UNCHANGED <<instance, loggers, files, disk, createdBy, openedBy>>

\* A faulty __new__ that opens the file on every call.
Logger__new__Reopen(openOk) ==
    /\ newCalls < MaxCalls
    /\ newCalls' = newCalls + 1
    /\ IF instance = None
       THEN CreateAndOpen(openOk)
       ELSE /\ openedBy' = Append(openedBy, newCalls + 1)
            /\ files' = Append(files, [closed |-> FALSE, buffer |-> <<>>])
            /\ loggers' = [loggers EXCEPT ![instance] = [log_file |-> Len(files) + 1]]
            /\ refs' = Append(refs, instance)
            /\ lastResult' = "ok"
            /\ UNCHANGED <<instance, disk, createdBy>>
    /\ UNCHANGED <<logged, runStart, runEnd, notLogger>>

\* A faulty __new__ that never looks at _instance.
Logger__new__AlwaysCreate(openOk) ==
    /\ newCalls < MaxCalls
    /\ newCalls' = newCalls + 1
    /\ CreateAndOpen(openOk)
    /\ UNCHANGED <<logged, runStart, runEnd, notLogger>>

\* Logger(): Logger.__new__(cls).
Logger__new__(openOk) ==
    /\ newCalls < MaxCalls
    /\ newCalls' = newCalls + 1
    /\ IF instance = None THEN CreateAndOpen(openOk) ELSE ReturnExisting
    /\ UNCHANGED <<logged, runStart, runEnd, notLogger>>

\* A faulty write that leaves the newline out.
WriteRaw(f, message) == [f EXCEPT !.buffer = @ \o message]

\* self._log_file.write(message + '\n') on an open file object.
Write(f, message) == [f EXCEPT !.buffer = @ \o Line(message)]

\* r.log(message), r one of the references the client holds.
Logger_log(i, message) ==
    LET self == loggers[refs[i]]
        h    == self.log_file
    IN  /\ IF "log_file" \notin DOMAIN self
           THEN /\ lastResult' = "AttributeError"
                /\ UNCHANGED <<files, logged>>
           ELSE IF files[h].closed
           THEN /\ lastResult' = "ValueError"
                /\ UNCHANGED <<files, logged>>
           ELSE /\ TotalLogged < MaxLog
                /\ files' = [files EXCEPT ![h] = Write(@, message)]
                /\ logged' = Append(logged, [via |-> i, message |-> message])
                /\ lastResult' = "ok"
        /\ UNCHANGED <<instance, loggers, disk, refs, newCalls, createdBy,
                       openedBy, runStart, runEnd, notLogger>>

\* A faulty close that also forgets the instance, as if to start afresh.
Logger_close_Resets(i) ==
    LET self == loggers[refs[i]]
        h    == self.log_file
    IN  /\ IF "log_file" \notin DOMAIN self
           THEN /\ lastResult' = "AttributeError"
                /\ UNCHANGED <<files, disk, instance>>
           ELSE /\ disk' = IF files[h].closed THEN disk
                            ELSE AppendToFile(disk, files[h].buffer)
                /\ files' = [files EXCEPT ![h] = [closed |-> TRUE, buffer |-> <<>>]]
                /\ instance' = None
                /\ lastResult' = "ok"
        /\ UNCHANGED <<loggers, refs, newCalls, createdBy, openedBy,
                       logged, runStart, runEnd, notLogger>>

\* r.close(): the file object flushes its buffer to the end of the file and
\* closes; closing a closed file does nothing.
Logger_close(i) ==
    LET self == loggers[refs[i]]
        h    == self.log_file
    IN  /\ IF "log_file" \notin DOMAIN self
           THEN /\ lastResult' = "AttributeError"
                /\ UNCHANGED <<files, disk>>
           ELSE /\ disk' = IF files[h].closed THEN disk
                            ELSE AppendToFile(disk, files[h].buffer)
                /\ files' = [files EXCEPT ![h] = [closed |-> TRUE, buffer |-> <<>>]]
                /\ lastResult' = "ok"
        /\ UNCHANGED <<instance, loggers, refs, newCalls, createdBy, openedBy,
                       logged, runStart, runEnd, notLogger>>

\* What the buffers of the open file objects hold, in handle order.
Unflushed == Concat([h \in 1..Len(files) |-> files[h].buffer])

\* The process ends and, if there is room, the example is run again in a new
\* process.  A normal exit flushes the open file objects; a killed process
\* loses what is still buffered.  Nothing in memory outlives the process.
EndRun(exit) ==
    /\ Len(runStart) < MaxRuns
    /\ disk' = IF exit = "normal" /\ Len(files) > 0
               THEN AppendToFile(disk, Unflushed) ELSE disk
    /\ runEnd' = Append(runEnd, [opened |-> Len(files) > 0,
                                 closed |-> \E h \in 1..Len(files) : files[h].closed,
                                 exit   |-> exit,
                                 msgs   |-> logged])
    /\ runStart' = Append(runStart, disk')
    /\ instance' = None
    /\ loggers' = <<>>
    /\ files' = <<>>
    /\ refs' = <<>>
    /\ newCalls' = 0
    /\ createdBy' = <<>>
    /\ openedBy' = <<>>
    /\ logged' = <<>>
    /\ lastResult' = "ok"
    /\ UNCHANGED notLogger

NextLogger ==
    \/ \E openOk \in BOOLEAN : Logger__new__(openOk)
    \/ \E i \in 1..Len(refs), m \in Messages : Logger_log(i, m)
    \/ \E i \in 1..Len(refs) : Logger_close(i)
    \/ \E exit \in {"normal", "killed"} : EndRun(exit)

(***************************************************************************)
(* Proxy: classes RealVideo and VideoProxy.                                *)
(***************************************************************************)
\* The file names the client passes.
Filenames == {"example.mp4", "other.mp4"}

InitVideo ==
    /\ proxies = <<>>
    /\ videos = <<>>
    /\ output = <<>>
    /\ playCalls = <<>>

\* RealVideo._load_video of video v, run on behalf of proxy p: one printed line.
RealVideo_load_video(out, v, filename, p) ==
    Append(out, [event |-> "Loading", video |-> v, filename |-> filename, by |-> p])

\* RealVideo.play of video v, reached through proxy p: one printed line.
RealVideo_play(out, v, filename, p) ==
    Append(out, [event |-> "Playing", video |-> v, filename |-> filename, by |-> p])

\* A faulty constructor that loads the video at once.
VideoProxy__init__Eager(filename) ==
    /\ Len(proxies) < MaxProxies
    /\ videos' = Append(videos, [filename |-> filename])
    /\ proxies' = Append(proxies, [filename |-> filename, real_video |-> Len(videos) + 1])
    /\ output' = RealVideo_load_video(output, Len(videos) + 1, filename, Len(proxies) + 1)
    /\ UNCHANGED <<playCalls, notVideo>>

\* VideoProxy(filename): VideoProxy.__init__.
VideoProxy__init__(filename) ==
    /\ Len(proxies) < MaxProxies
    /\ proxies' = Append(proxies, [filename |-> filename, real_video |-> None])
    /\ UNCHANGED <<videos, output, playCalls, notVideo>>

\* The first play() of a proxy: RealVideo(self.filename), whose __init__ stores
\* the file name and loads the video, and then RealVideo.play.
LoadThenPlay(p) ==
    LET v  == Len(videos) + 1
        fn == proxies[p].filename
    IN  /\ videos' = Append(videos, [filename |-> fn])
        /\ proxies' = [proxies EXCEPT ![p].real_video = v]
        /\ output' = RealVideo_play(RealVideo_load_video(output, v, fn, p), v, fn, p)

\* A later play() of a proxy: RealVideo.play on the video it holds.
PlayLoaded(p) ==
    LET v == proxies[p].real_video
    IN  /\ output' = RealVideo_play(output, v, videos[v].filename, p)
        /\ UNCHANGED <<videos, proxies>>

\* A faulty play() that creates a RealVideo on every call.
VideoProxy_play_AlwaysLoad(p) ==
    /\ Len(playCalls) < MaxPlays
    /\ playCalls' = Append(playCalls, p)
    /\ LoadThenPlay(p)
    /\ UNCHANGED notVideo

\* proxy.play(): VideoProxy.play.
VideoProxy_play(p) ==
    /\ Len(playCalls) < MaxPlays
    /\ playCalls' = Append(playCalls, p)
    /\ IF proxies[p].real_video = None THEN LoadThenPlay(p) ELSE PlayLoaded(p)
    /\ UNCHANGED notVideo

NextVideo ==
    \/ \E fn \in Filenames : VideoProxy__init__(fn)
    \/ \E p \in 1..Len(proxies) : VideoProxy_play(p)

(***************************************************************************)
(* The workflow "Build & Publish to GH-PAGES": one job, publish, whose     *)
(* steps run one after the other; a step runs only if every step before it *)
(* succeeded (no step sets if: or continue-on-error:).  All runs are in    *)
(* the concurrency group "pages" with cancel-in-progress: false.           *)
(***************************************************************************)
\* The branches pushed to; the workflow is triggered by pushes to main.
Branches == {"main", "dev"}
TriggerBranches == {"main"}

\* jobs.publish.steps, by name, in the order of the file.
Steps == << "Checkout",
            "Setup Anaconda",
            "Display Conda Environment Versions",
            "Build HTML",
            "Upload artifact",
            "Deploy to GitHub Pages" >>

\* The deployment step.
DeployStep == "Deploy to GitHub Pages"

InitPublish ==
    /\ pushes = <<>>
    /\ runs = <<>>
    /\ deployments = <<>>

InProgress == {r \in 1..Len(runs) : runs[r].status = "in_progress"}
Pending == {r \in 1..Len(runs) : runs[r].status = "pending"}

\* A faulty group with cancel-in-progress: true: the new run starts at once
\* and the runs in progress or waiting are cancelled.
Push_CancelInProgress(branch) ==
    /\ Len(pushes) < MaxPushes
    /\ pushes' = Append(pushes, branch)
    /\ IF branch \in TriggerBranches
       THEN LET new  == [push |-> Len(pushes) + 1, status |-> "in_progress",
                         step |-> 0, running |-> FALSE, log |-> <<>>]
                kept == [r \in 1..Len(runs) |->
                           IF runs[r].status \in {"pending", "in_progress"}
                           THEN [runs[r] EXCEPT !.status = "cancelled",
                                                !.running = FALSE]
                           ELSE runs[r]]
            IN  runs' = Append(kept, new)
       ELSE UNCHANGED runs
    /\ UNCHANGED <<deployments, notPublish>>

\* A push.  A push to main queues a run of the workflow: it starts at once
\* when no run of the group is in progress or waiting; otherwise it waits,
\* and takes the place of the run that was waiting, which is cancelled.
\* A run in progress is left alone.
Push(branch) ==
    /\ Len(pushes) < MaxPushes
    /\ pushes' = Append(pushes, branch)
    /\ IF branch \in TriggerBranches
       THEN LET busy == InProgress # {} \/ Pending # {}
                new  == [push |-> Len(pushes) + 1,
                         status |-> IF busy THEN "pending" ELSE "in_progress",
                         step |-> 0, running |-> FALSE, log |-> <<>>]
                kept == [r \in 1..Len(runs) |->
                           IF runs[r].status = "pending"
                           THEN [runs[r] EXCEPT !.status = "cancelled"]
                           ELSE runs[r]]
            IN  runs' = Append(kept, new)
       ELSE UNCHANGED runs
    /\ UNCHANGED <<deployments, notPublish>>

\* The waiting run starts once no run of the group is in progress.
StartPending(r) ==
    /\ runs[r].status = "pending"
    /\ InProgress = {}
    /\ runs' = [runs EXCEPT ![r].status = "in_progress"]
    /\ UNCHANGED <<pushes, deployments, notPublish>>

\* A faulty order of steps: the artifact upload is left out.
NextStepSkipsUpload(r) == IF runs[r].step = 4 THEN 6 ELSE runs[r].step + 1

\* The step the job of run r runs next: the one after the last one it ran.
NextStep(r) == runs[r].step + 1

\* The job of run r starts its next step.
StartStep(r) ==
    /\ runs[r].status = "in_progress"
    /\ ~runs[r].running
    /\ runs[r].step < Len(Steps)
    /\ runs' = [runs EXCEPT ![r].step = NextStep(r),
                            ![r].running = TRUE,
                            ![r].log = Append(@, [step |-> Steps[NextStep(r)],
                                                  what |-> "start"])]
    /\ UNCHANGED <<pushes, deployments, notPublish>>

\* A faulty runner that goes on after a failed step (continue-on-error).
AfterStepContinue(run, ok) ==
    IF run.step = Len(Steps) THEN (IF ok THEN "success" ELSE "failure")
    ELSE "in_progress"

\* The status of a run whose current step has ended: a failed step fails the
\* job, and the steps after it are skipped; the last step's success ends it.
AfterStep(run, ok) ==
    IF ~ok THEN "failure"
    ELSE IF run.step = Len(Steps) THEN "success"
    ELSE "in_progress"

\* The running step of run r ends, with success or with failure.
FinishStep(r, ok) ==
    /\ runs[r].status = "in_progress"
    /\ runs[r].running
    /\ runs' = [runs EXCEPT ![r].running = FALSE,
                            ![r].status = AfterStep(runs[r], ok),
                            ![r].log = Append(@, [step |-> Steps[runs[r].step],
                                                  what |-> IF ok THEN "ok" ELSE "fail"])]
    /\ deployments' = IF ok /\ Steps[runs[r].step] = DeployStep
                      THEN Append(deployments, r) ELSE deployments
    /\ UNCHANGED <<pushes, notPublish>>

NextPublish ==
    \/ \E b \in Branches : Push(b)
    \/ \E r \in 1..Len(runs) : StartPending(r)
    \/ \E r \in 1..Len(runs) : StartStep(r)
    \/ \E r \in 1..Len(runs), ok \in BOOLEAN : FinishStep(r, ok)

(***************************************************************************)
(* Prototype: class ProductPrototype.  An attribute value is an immutable  *)
(* object (a string, a number), [atom |-> a], or a reference to a list     *)
(* object, [ref |-> id]; the elements of the lists are immutable.          *)
(***************************************************************************)
NameAtoms == {"Smartphone", "Laptop"}
PriceAtoms == {"500", "700"}
AtomsOf(attr) == IF attr = "name" THEN NameAtoms ELSE PriceAtoms
Attrs == {"name", "price"}

IsList(v) == "ref" \in DOMAIN v

\* The arguments the client passes to the constructor: an immutable object,
\* a new list, or (as price) the very object passed as name.
NameArgs == {[atom |-> "Smartphone"], [atom |-> "Laptop"], [newlist |-> <<"Smartphone">>]}
PriceArgs == {[atom |-> "500"], [newlist |-> <<"500">>], [same |-> TRUE]}

InitProto ==
    /\ products = <<>>
    /\ lists = <<>>
    /\ clones = <<>>
    /\ writes = 0
    /\ lastOp = [op |-> "none", target |-> None, result |-> None]

\* What an observer reads from a value: the object itself when immutable,
\* the elements when it is a list.
Deref(ls, v) == IF IsList(v) THEN [elements |-> ls[v.ref]] ELSE v

\* What an observer reads from product o in the heap (ps, ls).
View(ps, ls, o) == [name |-> Deref(ls, ps[o].name), price |-> Deref(ls, ps[o].price)]

\* ProductPrototype(name, price): ProductPrototype.__init__.
ProductPrototype__init__(name, price) ==
    LET nameNew  == "newlist" \in DOMAIN name
        priceNew == "newlist" \in DOMAIN price
        lists1   == IF nameNew THEN Append(lists, name.newlist) ELSE lists
        nameVal  == IF nameNew THEN [ref |-> Len(lists1)] ELSE name
        lists2   == IF priceNew THEN Append(lists1, price.newlist) ELSE lists1
        priceVal == IF priceNew THEN [ref |-> Len(lists2)]
                    ELSE IF "same" \in DOMAIN price THEN nameVal
                    ELSE price
    IN  /\ Len(products) < MaxProducts
        /\ products' = Append(products, [name |-> nameVal, price |-> priceVal])
        /\ lists' = lists2
        /\ lastOp' = [op |-> "init", target |-> Len(products) + 1, result |-> None]
        /\ UNCHANGED <<clones, writes, notProto>>

\* A faulty clone that copies the object but not the values it refers to
\* (copy.copy).
ShallowCopy(p) ==
    [id |-> Len(products) + 1, products |-> Append(products, products[p]), lists |-> lists]

\* A faulty clone that builds the copy with its two attributes exchanged.
CopySwapped(p) ==
    [id |-> Len(products) + 1,
     products |-> Append(products, [name |-> products[p].price, price |-> products[p].name]),
     lists |-> lists]

\* deepcopy(self) for product p: a new object whose attributes are deep
\* copies of p's, in the order name, price.  An immutable object is its own
\* copy; a list is copied to a new list; an object met twice is copied once
\* (the memo).  The result: the new object's id and the heap with it.
Deepcopy(p) ==
    LET src       == products[p]
        memoHit   == IsList(src.name) /\ IsList(src.price) /\ src.price.ref = src.name.ref
        lists1    == IF IsList(src.name) THEN Append(lists, lists[src.name.ref]) ELSE lists
        newName   == IF IsList(src.name) THEN [ref |-> Len(lists1)] ELSE src.name
        lists2    == IF IsList(src.price) /\ ~memoHit
                     THEN Append(lists1, lists[src.price.ref]) ELSE lists1
        newPrice  == IF ~IsList(src.price) THEN src.price
                     ELSE IF memoHit THEN newName
                     ELSE [ref |-> Len(lists2)]
    IN  [id |-> Len(products) + 1,
         products |-> Append(products, [name |-> newName, price |-> newPrice]),
         lists |-> lists2]

\* p.clone(): ProductPrototype.clone.
ProductPrototype_clone(p) ==
    /\ Len(products) < MaxProducts
    /\ products' = Deepcopy(p).products
    /\ lists' = Deepcopy(p).lists
    /\ clones' = Append(clones, [src |-> p, dst |-> Deepcopy(p).id])
    /\ lastOp' = [op |-> "clone", target |-> p, result |-> Deepcopy(p).id]
    /\ UNCHANGED <<writes, notProto>>

\* o.name = a or o.price = a: the client binds an attribute to another object.
SetAttr(o, attr, a) ==
    /\ writes < MaxWrites
    /\ writes' = writes + 1
    /\ products' = [products EXCEPT ![o][attr] = [atom |-> a]]
    /\ lastOp' = [op |-> "set", target |-> o, result |-> None]
    /\ UNCHANGED <<lists, clones, notProto>>

\* o.name.append(a) or o.price.append(a): the client changes, in place, the
\* list an attribute refers to.
ListAppend(o, attr, a) ==
    /\ writes < MaxWrites
    /\ IsList(products[o][attr])
    /\ writes' = writes + 1
    /\ lists' = [lists EXCEPT ![products[o][attr].ref] = Append(@, a)]
    /\ lastOp' = [op |-> "append", target |-> o, result |-> None]
    /\ UNCHANGED <<products, clones, notProto>>

NextProto ==
    \/ \E name \in NameArgs, price \in PriceArgs : ProductPrototype__init__(name, price)
    \/ \E p \in 1..Len(products) : ProductPrototype_clone(p)
    \/ \E o \in 1..Len(products), attr \in Attrs :
          \E a \in AtomsOf(attr) : SetAttr(o, attr, a)
    \/ \E o \in 1..Len(products), attr \in Attrs :
          \E a \in AtomsOf(attr) : ListAppend(o, attr, a)

(***************************************************************************)
(* Proxy: classes RealSubject and Proxy.  A line of output is recorded     *)
(* with the object that printed it and the number of the client's call     *)
(* during which it was printed.                                            *)
(***************************************************************************)
InitSubject ==
    /\ realSubjects = 0
    /\ guards = <<>>
    /\ requests = <<>>
    /\ printed = <<>>

\* RealSubject(): the class has no __init__ and its objects no attributes.
RealSubject__init__ ==
    /\ realSubjects < MaxSubjects
    /\ realSubjects' = realSubjects + 1
    /\ UNCHANGED <<guards, requests, printed, notSubject>>

\* Proxy(real_subject): Proxy.__init__.
Proxy__init__(real_subject) ==
    /\ Len(guards) < MaxGuards
    /\ guards' = Append(guards, [real_subject |-> real_subject])
    /\ UNCHANGED <<realSubjects, requests, printed, notSubject>>

\* RealSubject.request of subject r during the client's call c: one line.
RealSubject_request(out, r, c) ==
    Append(out, [line |-> "RealSubject: Handling request", obj |-> r, call |-> c])

\* Proxy._check_access of proxy p: one line; it returns True.
Proxy_check_access(out, p, c) ==
    [out |-> Append(out, [line |-> "Proxy: Checking access prior to firing a real request",
                          obj |-> p, call |-> c]),
     result |-> TRUE]

\* Proxy._log_access of proxy p: one line.
Proxy_log_access(out, p, c) ==
    Append(out, [line |-> "Proxy: Logging the time of request", obj |-> p, call |-> c])

\* A faulty request() that forwards the request before it checks the access.
Proxy_request_ForwardFirst(out, p, c) ==
    LET forwarded == RealSubject_request(out, guards[p].real_subject, c)
        check     == Proxy_check_access(forwarded, p, c)
    IN  Proxy_log_access(check.out, p, c)

\* Proxy.request of proxy p during the client's call c: the output after it.
Proxy_request(out, p, c) ==
    LET check == Proxy_check_access(out, p, c)
    IN  IF check.result
        THEN Proxy_log_access(
                 RealSubject_request(check.out, guards[p].real_subject, c), p, c)
        ELSE check.out

\* client_code(real_subject): request() on a real subject.
ClientRequestsReal(r) ==
    /\ Len(requests) < MaxRequests
    /\ requests' = Append(requests, [on |-> "RealSubject", obj |-> r])
    /\ printed' = RealSubject_request(printed, r, Len(requests) + 1)
    /\ UNCHANGED <<realSubjects, guards, notSubject>>

\* client_code(proxy): request() on a proxy.
ClientRequestsProxy(p) ==
    /\ Len(requests) < MaxRequests
    /\ requests' = Append(requests, [on |-> "Proxy", obj |-> p])
    /\ printed' = Proxy_request(printed, p, Len(requests) + 1)
    /\ UNCHANGED <<realSubjects, guards, notSubject>>

NextSubject ==
    \/ RealSubject__init__
    \/ \E r \in 1..realSubjects : Proxy__init__(r)
    \/ \E r \in 1..realSubjects : ClientRequestsReal(r)
    \/ \E p \in 1..Len(guards) : ClientRequestsProxy(p)

(***************************************************************************)
(* Composite: classes File and Directory.  A printed line is recorded      *)
(* with the object that printed it.                                        *)
(***************************************************************************)
\* File(name): File.__init__.
File__init__(name) == [kind |-> "File", name |-> name]

\* Directory(name): Directory.__init__.
Directory__init__(name) == [kind |-> "Directory", name |-> name, components |-> <<>>]

\* The client has constructed its directories and files (two of each here)
\* and has not called a method yet.
InitFs ==
    /\ components = <<Directory__init__("root"), Directory__init__("home"),
                      File__init__("file1.txt"), File__init__("file2.txt")>>
    /\ added = <<>>
    /\ fsCalls = [remove |-> 0, show |-> 0]
    /\ shown = [root |-> None, lines |-> <<>>]
    /\ fsResult = "ok"

\* The client builds the structure first and shows it afterwards, as the
\* lecture's client code does.
Building == fsCalls.show = 0

\* A faulty add() that puts the component in front of the others.
Directory_add_InFront(d, component) ==
    /\ Building
    /\ Len(added) < MaxAdds
    /\ added' = Append(added, [dir |-> d, component |-> component])
    /\ components' = [components EXCEPT ![d].components = <<component>> \o @]
    /\ fsResult' = "ok"
    /\ UNCHANGED <<fsCalls, shown, notFs>>

\* d.add(component): Directory.add, for any component, d itself included.
Directory_add(d, component) ==
    /\ Building
    /\ Len(added) < MaxAdds
    /\ added' = Append(added, [dir |-> d, component |-> component])
    /\ components' = [components EXCEPT ![d].components = Append(@, component)]
    /\ fsResult' = "ok"
    /\ UNCHANGED <<fsCalls, shown, notFs>>

\* list.remove(x): the list without the first element equal to x.
ListRemove(l, x) ==
    LET k == CHOOSE i \in 1..Len(l) : l[i] = x /\ \A j \in 1..(i - 1) : l[j] # x
    IN  SubSeq(l, 1, k - 1) \o SubSeq(l, k + 1, Len(l))

\* d.remove(component): Directory.remove; list.remove raises ValueError when
\* the component is not in the list.
Directory_remove(d, component) ==
    /\ Building
    /\ fsCalls.remove < MaxRemoves
    /\ fsCalls' = [fsCalls EXCEPT !.remove = @ + 1]
    /\ IF \E i \in 1..Len(components[d].components) :
              components[d].components[i] = component
       THEN /\ components' = [components EXCEPT
                                  ![d].components = ListRemove(@, component)]
            /\ fsResult' = "ok"
       ELSE /\ fsResult' = "ValueError"
            /\ UNCHANGED components
    /\ UNCHANGED <<added, shown, notFs>>

\* The line an object prints: "File: <name>" or "Directory: <name>".
LineOf(c) == [kind |-> components[c].kind, name |-> components[c].name, id |-> c]

RECURSIVE show_details(_, _)
RECURSIVE ShowEach(_, _, _)
\* c.show_details() at recursion depth `depth`: the lines printed, or
\* [raised |-> TRUE] when the recursion does not end.  A chain of calls longer
\* than the number of objects passes through one directory twice and so goes
\* on until Python raises RecursionError.
show_details(c, depth) ==
    IF depth > Len(components)
    THEN [raised |-> TRUE, lines |-> <<>>]
    ELSE IF components[c].kind = "File"
         THEN [raised |-> FALSE, lines |-> <<LineOf(c)>>]
         ELSE ShowEach(components[c].components, <<LineOf(c)>>, depth)

\* The loop of Directory.show_details over the components not yet shown.
ShowEach(rest, lines, depth) ==
    IF rest = <<>>
    THEN [raised |-> FALSE, lines |-> lines]
    ELSE LET first == show_details(Head(rest), depth + 1)
         IN  IF first.raised
             THEN first
             ELSE ShowEach(Tail(rest), lines \o first.lines, depth)

\* c.show_details() called by the client.
ClientShowDetails(c) ==
    /\ fsCalls.show < MaxShows
    /\ fsCalls' = [fsCalls EXCEPT !.show = @ + 1]
    /\ LET res == show_details(c, 1)
       IN  /\ fsResult' = IF res.raised THEN "RecursionError" ELSE "ok"
           /\ shown' = [root |-> c, lines |-> res.lines]
    /\ UNCHANGED <<components, added, notFs>>

\* The directories among the objects.
Directories == {d \in 1..Len(components) : components[d].kind = "Directory"}

NextFs ==
    \/ \E d \in Directories, c \in 1..Len(components) : Directory_add(d, c)
    \/ \E d \in Directories, c \in 1..Len(components) : Directory_remove(d, c)
    \/ \E c \in 1..Len(components) : ClientShowDetails(c)

(***************************************************************************)
(* Python's float: IEEE 754 binary64 with round-to-nearest, ties to even.  *)
(* Only the non-negative normal numbers are modelled; the examples reach   *)
(* no others.  A natural number is a sequence of bits, least significant   *)
(* first and without leading zeros (so 0 is the empty sequence), because   *)
(* mantissas of 53 bits and their sums and products exceed the model       *)
(* checker's integers.  A float is [m, e] and stands for m * 2^e, with m   *)
(* of exactly 53 bits, or is Zero.                                         *)
(***************************************************************************)
\* The bits of a binary64 significand.
Precision == 53

\* The arithmetic on bits works on chunks of this many bits, each chunk
\* being small enough for the model checker's integers.
Chunk == 12

\* The bits b without leading zeros.
Strip(b) ==
    LET ones == {i \in 1..Len(b) : b[i] = 1}
    IN  IF ones = {} THEN <<>>
        ELSE SubSeq(b, 1, CHOOSE i \in ones : \A j \in ones : j <= i)

\* The w low bits of the natural number n.
Padded(n, w) == [i \in 1..w |-> (n \div 2^(i - 1)) % 2]

\* The natural number n (below 2^30) as bits.
Bits(n) == Strip(Padded(n, 30))

RECURSIVE Value(_)
\* The number that a short sequence of bits stands for.
Value(b) == IF b = <<>> THEN 0 ELSE Head(b) + 2 * Value(Tail(b))

\* The lowest chunk of b and what is above it.
Low(b) == SubSeq(b, 1, IF Len(b) < Chunk THEN Len(b) ELSE Chunk)
High(b) == SubSeq(b, Chunk + 1, Len(b))

\* b * 2^k and the integer part of b / 2^k.
ShiftLeft(b, k) == IF b = <<>> THEN <<>> ELSE [i \in 1..k |-> 0] \o b
ShiftRight(b, k) == SubSeq(b, k + 1, Len(b))

RECURSIVE AddCarry(_, _, _)
\* a + b + carry, chunk by chunk from the low end (with leading zeros).
AddCarry(a, b, carry) ==
    IF a = <<>> /\ b = <<>>
    THEN Padded(carry, 1)
    ELSE LET t == Value(Low(a)) + Value(Low(b)) + carry
         IN  Padded(t % 2^Chunk, Chunk) \o AddCarry(High(a), High(b), t \div 2^Chunk)

BitsAdd(a, b) == Strip(AddCarry(a, b, 0))

RECURSIVE TimesCarry(_, _, _)
\* a * n + carry for a natural number n below 2^18, chunk by chunk.
TimesCarry(a, n, carry) ==
    IF a = <<>>
    THEN Padded(carry, 18)
    ELSE LET t == Value(Low(a)) * n + carry
         IN  Padded(t % 2^Chunk, Chunk) \o TimesCarry(High(a), n, t \div 2^Chunk)

BitsTimes(a, n) == Strip(TimesCarry(a, n, 0))

RECURSIVE DivChunks(_, _)
\* Long division of the bits b by a natural number d below 2^18, chunk by
\* chunk from the high end: the quotient (with leading zeros) and the
\* remainder.
DivChunks(b, d) ==
    IF b = <<>>
    THEN [q |-> <<>>, r |-> 0]
    ELSE LET high == DivChunks(High(b), d)
             t    == high.r * 2^Len(Low(b)) + Value(Low(b))
         IN  [q |-> Padded(t \div d, Chunk) \o high.q, r |-> t % d]

\* The quotient and the remainder of b divided by d.
BitsDivMod(b, d) ==
    LET qr == DivChunks(b, d)
    IN  [q |-> Strip(qr.q), r |-> qr.r]

Zero == [m |-> <<>>, e |-> 0]

\* The float nearest to (b + f) * 2^e, where b is a natural number and f a
\* fraction in [0, 1) of which only `inexact`, f # 0, is known; b has at
\* least Precision + 2 bits whenever f # 0.  Ties go to the even significand.
Round(b, inexact, e) ==
    IF b = <<>> THEN Zero
    ELSE IF Len(b) <= Precision
    THEN [m |-> ShiftLeft(b, Precision - Len(b)), e |-> e - (Precision - Len(b))]
    ELSE LET k      == Len(b) - Precision
             kept   == ShiftRight(b, k)
             half   == b[k] = 1
             more   == inexact \/ \E i \in 1..(k - 1) : b[i] = 1
             up     == half /\ (more \/ kept[1] = 1)
             m      == IF up THEN BitsAdd(kept, <<1>>) ELSE kept
         IN  IF Len(m) > Precision
             THEN [m |-> ShiftRight(m, 1), e |-> e + k + 1]
             ELSE [m |-> m, e |-> e + k]

\* The float a decimal literal denotes: the one nearest to num / den, for
\* small natural numbers num and den (1.99 is Float(199, 100)).
Float(num, den) ==
    LET scale == Precision + 2 + Len(Bits(den))
        qr    == BitsDivMod(ShiftLeft(Bits(num), scale), den)
    IN  Round(qr.q, qr.r # 0, 0 - scale)

\* x + y of two floats.
FloatAdd(x, y) ==
    IF x = Zero THEN y
    ELSE IF y = Zero THEN x
    ELSE LET e == IF x.e < y.e THEN x.e ELSE y.e
         IN  Round(BitsAdd(ShiftLeft(x.m, x.e - e), ShiftLeft(y.m, y.e - e)), FALSE, e)

\* n * y of an int n and a float y.  Python converts n to float first,
\* which is exact for the integers below 2^53, and rounds the product once.
IntTimesFloat(n, y) ==
    IF n = 0 \/ y = Zero THEN Zero ELSE Round(BitsTimes(y.m, n), FALSE, y.e)

(***************************************************************************)
(* Decorator: classes Espresso, MilkDecorator and MochaDecorator.  A       *)
(* string is the sequence of its characters.                               *)
(***************************************************************************)
InitBeverage ==
    /\ beverages = <<>>
    /\ served = [beverage |-> None, description |-> <<>>, cost |-> Zero]

\* Espresso(): the class has no __init__.
Espresso__init__ ==
    /\ Len(beverages) < MaxBeverages
    /\ beverages' = Append(beverages, [kind |-> "Espresso"])
    /\ UNCHANGED <<served, notBeverage>>

\* MilkDecorator(beverage) and MochaDecorator(beverage): AddOnDecorator.__init__.
AddOnDecorator__init__(kind, beverage) ==
    /\ Len(beverages) < MaxBeverages
    /\ beverages' = Append(beverages, [kind |-> kind, beverage |-> beverage])
    /\ UNCHANGED <<served, notBeverage>>

\* Espresso.cost and Espresso.description.
Espresso_cost == Float(199, 100)
Espresso_description == <<"E", "s", "p", "r", "e", "s", "s", "o">>

\* MilkDecorator.cost and MilkDecorator.description, given what the wrapped
\* beverage returned.
MilkDecorator_cost(wrapped) == FloatAdd(wrapped, Float(50, 100))
MilkDecorator_description(wrapped) == wrapped \o <<",", " ", "M", "i", "l", "k">>

\* A faulty MochaDecorator.cost that charges the price of milk.
MochaDecorator_cost_AsMilk(wrapped) == FloatAdd(wrapped, Float(50, 100))

\* MochaDecorator.cost and MochaDecorator.description.
MochaDecorator_cost(wrapped) == FloatAdd(wrapped, Float(75, 100))
MochaDecorator_description(wrapped) == wrapped \o <<",", " ", "M", "o", "c", "h", "a">>

RECURSIVE Beverage_cost(_)
\* b.cost(), by the class of b.
Beverage_cost(b) ==
    IF beverages[b].kind = "Espresso" THEN Espresso_cost
    ELSE IF beverages[b].kind = "MilkDecorator"
         THEN MilkDecorator_cost(Beverage_cost(beverages[b].beverage))
         ELSE MochaDecorator_cost(Beverage_cost(beverages[b].beverage))

RECURSIVE Beverage_description(_)
\* b.description(), by the class of b.
Beverage_description(b) ==
    IF beverages[b].kind = "Espresso" THEN Espresso_description
    ELSE IF beverages[b].kind = "MilkDecorator"
         THEN MilkDecorator_description(Beverage_description(beverages[b].beverage))
         ELSE MochaDecorator_description(Beverage_description(beverages[b].beverage))

\* print(f"{b.description()} - ${b.cost()}") of the client.
ClientPrints(b) ==
    /\ served' = [beverage |-> b,
                  description |-> Beverage_description(b),
                  cost |-> Beverage_cost(b)]
    /\ UNCHANGED <<beverages, notBeverage>>

NextBeverage ==
    \/ Espresso__init__
    \/ \E kind \in {"MilkDecorator", "MochaDecorator"}, b \in 1..Len(beverages) :
           AddOnDecorator__init__(kind, b)
    \/ \E b \in 1..Len(beverages) : ClientPrints(b)

(***************************************************************************)
(* Factory method: the Employee classes and the hiring managers.  A number *)
(* is [type |-> "int", value |-> an integer] or [type |-> "float",         *)
(* value |-> a float].                                                     *)
(***************************************************************************)
\* The names and the salaries (ints) the client passes: the lecture's and the
\* two around the recruiter's threshold.
EmployeeNames == {"John", "Alice"}
Salaries == {40000, 49999, 50000, 60000, 80000}

InitHiring ==
    /\ employees = <<>>
    /\ hired = <<>>
    /\ bonus = [employee |-> None]

\* Employee.__init__, run for an object of class cls.
Employee__init__(cls, name, salary) == [class |-> cls, name |-> name, salary |-> salary]

\* HRManager.make_employee: the object it returns.
HRManager_make_employee(name, salary) == Employee__init__("FullTimeEmployee", name, salary)

\* A faulty Recruiter.make_employee whose threshold includes 50000.
Recruiter_make_employee_Inclusive(name, salary) ==
    IF salary <= 50000
    THEN Employee__init__("PartTimeEmployee", name, salary)
    ELSE Employee__init__("Contractor", name, salary)

\* Recruiter.make_employee: the object it returns.
Recruiter_make_employee(name, salary) ==
    IF salary < 50000
    THEN Employee__init__("PartTimeEmployee", name, salary)
    ELSE Employee__init__("Contractor", name, salary)

\* manager.make_employee(name, salary) called by the client.
ClientHires(manager, name, salary) ==
    /\ Len(employees) < MaxEmployees
    /\ employees' = Append(employees,
                           IF manager = "HRManager"
                           THEN HRManager_make_employee(name, salary)
                           ELSE Recruiter_make_employee(name, salary))
    /\ hired' = Append(hired, [manager |-> manager, name |-> name, salary |-> salary,
                               employee |-> Len(employees) + 1])
    /\ UNCHANGED <<bonus, notHiring>>

\* calculate_bonus of the three classes.
FullTimeEmployee_calculate_bonus(self) ==
    [type |-> "float", value |-> IntTimesFloat(self.salary, Float(1, 10))]
PartTimeEmployee_calculate_bonus(self) ==
    [type |-> "float", value |-> IntTimesFloat(self.salary, Float(5, 100))]
Contractor_calculate_bonus(self) == [type |-> "int", value |-> 0]

\* e.calculate_bonus(), by the class of e.
Employee_calculate_bonus(self) ==
    IF self.class = "FullTimeEmployee" THEN FullTimeEmployee_calculate_bonus(self)
    ELSE IF self.class = "PartTimeEmployee" THEN PartTimeEmployee_calculate_bonus(self)
    ELSE Contractor_calculate_bonus(self)

\* e.type_name(): each class returns its own name.
Employee_type_name(self) ==
    IF self.class = "FullTimeEmployee" THEN "FullTimeEmployee"
    ELSE IF self.class = "PartTimeEmployee" THEN "PartTimeEmployee"
    ELSE "Contractor"

\* The client's e.calculate_bonus() and e.type_name() for the line it prints.
ClientAsks(e) ==
    /\ bonus' = [employee |-> e,
                 bonus |-> Employee_calculate_bonus(employees[e]),
                 type_name |-> Employee_type_name(employees[e])]
    /\ UNCHANGED <<employees, hired, notHiring>>

NextHiring ==
    \/ \E manager \in {"HRManager", "Recruiter"}, name \in EmployeeNames,
          salary \in Salaries : ClientHires(manager, name, salary)
    \/ \E e \in 1..Len(employees) : ClientAsks(e)

(***************************************************************************)
(* Adapter: classes Adaptee and Adapter, EuropeanSocket and SocketAdapter. *)
(* A string is the sequence of its characters.  A method is modelled by    *)
(* the value it returns and the objects whose method it called, in order.  *)
(***************************************************************************)
InitAdapter ==
    /\ adaptees = <<>>
    /\ adapters = <<>>
    /\ invoked = <<>>
    /\ answers = <<>>

\* Adaptee() and EuropeanSocket(): the classes have no __init__.
Adaptee__init__(cls) ==
    /\ Len(adaptees) < MaxAdaptees
    /\ adaptees' = Append(adaptees, [class |-> cls])
    /\ invoked' = Append(invoked, 0)
    /\ UNCHANGED <<adapters, answers, notAdapter>>

\* Adapter(adaptee): Adapter.__init__.
Adapter__init__(adaptee) ==
    /\ Len(adapters) < MaxAdapters
    /\ adaptees[adaptee].class = "Adaptee"
    /\ adapters' = Append(adapters, [class |-> "Adapter", adaptee |-> adaptee])
    /\ UNCHANGED <<adaptees, invoked, answers, notAdapter>>

\* SocketAdapter(european_socket): SocketAdapter.__init__.
SocketAdapter__init__(european_socket) ==
    /\ Len(adapters) < MaxAdapters
    /\ adaptees[european_socket].class = "EuropeanSocket"
    /\ adapters' = Append(adapters, [class |-> "SocketAdapter",
                                     european_socket |-> european_socket])
    /\ UNCHANGED <<adaptees, invoked, answers, notAdapter>>

\* Adaptee.specific_request: "Response from Adaptee".
Adaptee_specific_request ==
    <<"R", "e", "s", "p", "o", "n", "s", "e", " ", "f", "r", "o", "m", " ",
      "A", "d", "a", "p", "t", "e", "e">>

\* EuropeanSocket.provide_european_power: "European power".
EuropeanSocket_provide_european_power ==
    <<"E", "u", "r", "o", "p", "e", "a", "n", " ", "p", "o", "w", "e", "r">>

\* Adapter.request.
Adapter_request(self) ==
    [value |-> Adaptee_specific_request, called |-> <<self.adaptee>>]

\* A faulty request_power() that hands on the European power as it is.
SocketAdapter_request_power_Unconverted(self) ==
    [value |-> EuropeanSocket_provide_european_power,
     called |-> <<self.european_socket>>]

\* SocketAdapter.request_power: f"Converted {european_power} to US power".
SocketAdapter_request_power(self) ==
    LET european_power == EuropeanSocket_provide_european_power
    IN  [value |-> <<"C", "o", "n", "v", "e", "r", "t", "e", "d", " ">>
                       \o european_power
                       \o <<" ", "t", "o", " ", "U", "S", " ", "p", "o", "w",
                            "e", "r">>,
         called |-> <<self.european_socket>>]

\* adapter.request() or socket_adapter.request_power() called by the client.
ClientRequests(a) ==
    LET res == IF adapters[a].class = "Adapter"
               THEN Adapter_request(adapters[a])
               ELSE SocketAdapter_request_power(adapters[a])
    IN  /\ Len(answers) < MaxAnswers
        /\ answers' = Append(answers, [adapter |-> a, value |-> res.value])
        /\ invoked' = [o \in 1..Len(invoked) |->
                          invoked[o] + Cardinality({k \in 1..Len(res.called) :
                                                        res.called[k] = o})]
        /\ UNCHANGED <<adaptees, adapters, notAdapter>>

NextAdapter ==
    \/ \E cls \in {"Adaptee", "EuropeanSocket"} : Adaptee__init__(cls)
    \/ \E o \in 1..Len(adaptees) : Adapter__init__(o)
    \/ \E o \in 1..Len(adaptees) : SocketAdapter__init__(o)
    \/ \E a \in 1..Len(adapters) : ClientRequests(a)

(***************************************************************************)
(* Builder: classes Product, Builder and MealBuilder.  The value of a part *)
(* is a sequence: empty for None, else the one string it holds.            *)
(***************************************************************************)
InitMeal ==
    /\ mealProducts = <<>>
    /\ builders = <<>>
    /\ mealBuilders = <<>>
    /\ meals = <<>>

\* Product(): Product.__init__.
Product__init__ == [part1 |-> <<>>, part2 |-> <<>>, part3 |-> <<>>]

\* MealBuilder(): MealBuilder.__init__ constructs a Builder, whose __init__
\* constructs a Product.
MealBuilder__init__ ==
    /\ Len(mealBuilders) < MaxMealBuilders
    /\ mealProducts' = Append(mealProducts, Product__init__)
    /\ builders' = Append(builders, [product |-> Len(mealProducts) + 1])
    /\ mealBuilders' = Append(mealBuilders, [builder |-> Len(builders) + 1])
    /\ UNCHANGED <<meals, notMeal>>

\* Builder.build_part1, build_part2 and build_part3 of builder b, one after
\* the other: the Product objects afterwards.
Builder_build_parts(b, part1, part2, part3) ==
    [mealProducts EXCEPT ![builders[b].product] =
        [part1 |-> <<part1>>, part2 |-> <<part2>>, part3 |-> <<part3>>]]

\* Builder.get_product of builder b.
Builder_get_product(b) == builders[b].product

\* meal_builder.prepare_veg_meal().
MealBuilder_prepare_veg_meal(mb) ==
    /\ Len(meals) < MaxMeals
    /\ mealProducts' = Builder_build_parts(mealBuilders[mb].builder,
                                           "Salad", "Vegetable Curry", "Rice")
    /\ meals' = Append(meals, [by |-> mb, method |-> "prepare_veg_meal",
                               product |-> Builder_get_product(mealBuilders[mb].builder)])
    /\ UNCHANGED <<builders, mealBuilders, notMeal>>

\* A faulty prepare_non_veg_meal whose builder starts on a fresh Product.
MealBuilder_prepare_non_veg_meal_Fresh(mb) ==
    LET b == mealBuilders[mb].builder
        fresh == Len(mealProducts) + 1
    IN  /\ Len(meals) < MaxMeals
        /\ builders' = [builders EXCEPT ![b].product = fresh]
        /\ mealProducts' = Append(mealProducts,
               [part1 |-> <<"Chicken Soup">>, part2 |-> <<"Grilled Chicken">>,
                part3 |-> <<"Chicken Tikka">>])
        /\ meals' = Append(meals, [by |-> mb, method |-> "prepare_non_veg_meal",
                                   product |-> fresh])
        /\ UNCHANGED <<mealBuilders, notMeal>>

\* meal_builder.prepare_non_veg_meal().
MealBuilder_prepare_non_veg_meal(mb) ==
    /\ Len(meals) < MaxMeals
    /\ mealProducts' = Builder_build_parts(mealBuilders[mb].builder,
                                           "Chicken Soup", "Grilled Chicken",
                                           "Chicken Tikka")
    /\ meals' = Append(meals, [by |-> mb, method |-> "prepare_non_veg_meal",
                               product |-> Builder_get_product(mealBuilders[mb].builder)])
    /\ UNCHANGED <<builders, mealBuilders, notMeal>>

NextMeal ==
    \/ MealBuilder__init__
    \/ \E mb \in 1..Len(mealBuilders) : MealBuilder_prepare_veg_meal(mb)
    \/ \E mb \in 1..Len(mealBuilders) : MealBuilder_prepare_non_veg_meal(mb)

(***************************************************************************)
(* Observer: classes NewsPublisher and NewsSubscriber (Java).  There is    *)
(* one publisher; its list of subscribers is empty when it is constructed. *)
(***************************************************************************)
InitNews ==
    /\ subscribers = <<>>
    /\ observers = 0
    /\ newsCalls = <<>>
    /\ updates = <<>>

\* List.add(x): x at the end, whether or not the list holds it already.
List_add(l, x) == Append(l, x)

\* List.remove(x): the list without its first element equal to x; the list
\* as it is when no element is equal to x.
List_remove(l, x) ==
    IF \A i \in 1..Len(l) : l[i] # x
    THEN l
    ELSE LET k == CHOOSE i \in 1..Len(l) : l[i] = x /\ \A j \in 1..(i - 1) : l[j] # x
         IN  SubSeq(l, 1, k - 1) \o SubSeq(l, k + 1, Len(l))

\* NewsPublisher.registerObserver(obs).
NewsPublisher_registerObserver(obs) ==
    /\ subscribers' = List_add(subscribers, obs)
    /\ newsCalls' = Append(newsCalls, [op |-> "registerObserver", obs |-> obs])

\* new NewsSubscriber(subject): the constructor registers the new object.
NewsSubscriber__init__ ==
    /\ observers < MaxObservers
    /\ Len(newsCalls) < MaxNewsCalls
    /\ observers' = observers + 1
    /\ NewsPublisher_registerObserver(observers + 1)
    /\ UNCHANGED <<updates, notNews>>

\* publisher.registerObserver(obs) called by the client.
ClientRegisters(obs) ==
    /\ Len(newsCalls) < MaxNewsCalls
    /\ NewsPublisher_registerObserver(obs)
    /\ UNCHANGED <<observers, updates, notNews>>

\* publisher.removeObserver(obs): NewsPublisher.removeObserver.
NewsPublisher_removeObserver(obs) ==
    /\ Len(newsCalls) < MaxNewsCalls
    /\ subscribers' = List_remove(subscribers, obs)
    /\ newsCalls' = Append(newsCalls, [op |-> "removeObserver", obs |-> obs])
    /\ UNCHANGED <<observers, updates, notNews>>

\* publisher.freshNewsAvailable(): update() on each element of the list.
NewsPublisher_freshNewsAvailable ==
    /\ Len(newsCalls) < MaxNewsCalls
    /\ newsCalls' = Append(newsCalls, [op |-> "freshNewsAvailable", obs |-> None])
    /\ updates' = updates \o [i \in 1..Len(subscribers) |->
                                 [obs |-> subscribers[i], call |-> Len(newsCalls) + 1]]
    /\ UNCHANGED <<subscribers, observers, notNews>>

NextNews ==
    \/ NewsSubscriber__init__
    \/ \E obs \in 1..observers : ClientRegisters(obs)
    \/ \E obs \in 1..observers : NewsPublisher_removeObserver(obs)
    \/ NewsPublisher_freshNewsAvailable

(***************************************************************************)
(* Observer: the pseudo-code of the built-in Observable, as it is written. *)
(* notifyObservers assigns false to `chaged`, a name other than the        *)
(* `changed` that it tests.                                                *)
(***************************************************************************)
InitObservable ==
    /\ changed = FALSE
    /\ chaged = "unset"
    /\ watchers = {}
    /\ observableCalls = <<>>

\* An observer is added to the Observable ("for every observer").
Observable_addObserver ==
    /\ Cardinality(watchers) < MaxWatchers
    /\ watchers' = watchers \cup {Cardinality(watchers) + 1}
    /\ UNCHANGED <<changed, chaged, observableCalls, notObservable>>

\* setChanged(): its effect on the variables, for the history calls.
setChanged(calls) ==
    /\ changed' = TRUE
    /\ observableCalls' = Append(calls, [op |-> "setChanged", arg |-> "none",
                                         updated |-> {}])

\* notifyObservers(someData), entered with the flag `flag`, for the history
\* calls: what it assigns and whose update it calls.
notifyObservers(flag, calls, someData) ==
    IF flag
    THEN /\ chaged' = "false"
         /\ observableCalls' = Append(calls, [op |-> "notifyObservers", arg |-> someData,
                                              updated |-> watchers])
    ELSE /\ chaged' = chaged
         /\ observableCalls' = Append(calls, [op |-> "notifyObservers", arg |-> someData,
                                              updated |-> {}])

\* setChanged() called on the Observable.
ClientSetsChanged ==
    /\ Len(observableCalls) < MaxObservableCalls
    /\ setChanged(observableCalls)
    /\ UNCHANGED <<chaged, watchers, notObservable>>

\* notifyObservers(someData), and notifyObservers(), which is
\* notifyObservers(null), called on the Observable.
ClientNotifies(someData) ==
    /\ Len(observableCalls) < MaxObservableCalls
    /\ notifyObservers(changed, observableCalls, someData)
    /\ UNCHANGED <<changed, watchers, notObservable>>

\* NewsPublisher.freshNewsAvailable of the built-in version: setChanged() and
\* then notifyObservers(someData).
Observable_freshNewsAvailable ==
    /\ Len(observableCalls) + 1 < MaxObservableCalls
    /\ changed' = TRUE
    /\ notifyObservers(TRUE,
                       Append(observableCalls, [op |-> "setChanged", arg |-> "none",
                                                updated |-> {}]),
                       "someData")
    /\ UNCHANGED <<watchers, notObservable>>

NextObservable ==
    \/ Observable_addObserver
    \/ ClientSetsChanged
    \/ \E someData \in {"someData", "null"} : ClientNotifies(someData)
    \/ Observable_freshNewsAvailable

(***************************************************************************)
(* Strategy: class Car with its FuelType and SeatNumber behaviours (Java). *)
(***************************************************************************)
FuelTypes == {"Diesel", "Petrol"}
SeatNumbers == {"FourSeater", "TwoSeater"}

InitCar ==
    /\ cars = <<>>
    /\ carCalls = <<>>
    /\ carRead = [car |-> None]

\* Diesel.fuelType and Petrol.fuelType.
FuelType_fuelType(ft) == IF ft = "Diesel" THEN "Diesel" ELSE "Petrol"

\* FourSeater.numberOfSeats and TwoSeater.numberOfSeats.
SeatNumber_numberOfSeats(sn) == IF sn = "FourSeater" THEN 4 ELSE 2

\* new Car(): the constructor (of a concrete subclass that adds nothing).
Car__init__ ==
    /\ Len(cars) < MaxCars
    /\ cars' = Append(cars, [fuelType |-> "Petrol", seatNumber |-> "FourSeater"])
    /\ UNCHANGED <<carCalls, carRead, notCar>>

\* A faulty setFuelType that also puts the seats back to four.
Car_setFuelType_ResetsSeats(c, ft) ==
    /\ Len(carCalls) < MaxCarCalls
    /\ cars' = [cars EXCEPT ![c] = [fuelType |-> ft, seatNumber |-> "FourSeater"]]
    /\ carCalls' = Append(carCalls, [car |-> c, op |-> "setFuelType", arg |-> ft])
    /\ UNCHANGED <<carRead, notCar>>

\* car.setFuelType(ft).
Car_setFuelType(c, ft) ==
    /\ Len(carCalls) < MaxCarCalls
    /\ cars' = [cars EXCEPT ![c].fuelType = ft]
    /\ carCalls' = Append(carCalls, [car |-> c, op |-> "setFuelType", arg |-> ft])
    /\ UNCHANGED <<carRead, notCar>>

\* car.setSeatNumber(sn).
Car_setSeatNumber(c, sn) ==
    /\ Len(carCalls) < MaxCarCalls
    /\ cars' = [cars EXCEPT ![c].seatNumber = sn]
    /\ carCalls' = Append(carCalls, [car |-> c, op |-> "setSeatNumber", arg |-> sn])
    /\ UNCHANGED <<carRead, notCar>>

\* car.getFuelType() and car.numberOfSeats() called by the client.
ClientReadsCar(c) ==
    /\ carRead' = [car |-> c, at |-> Len(carCalls),
                   fuelType |-> FuelType_fuelType(cars[c].fuelType),
                   seats |-> SeatNumber_numberOfSeats(cars[c].seatNumber)]
    /\ UNCHANGED <<cars, carCalls, notCar>>

NextCar ==
    \/ Car__init__
    \/ \E c \in 1..Len(cars), ft \in FuelTypes : Car_setFuelType(c, ft)
    \/ \E c \in 1..Len(cars), sn \in SeatNumbers : Car_setSeatNumber(c, sn)
    \/ \E c \in 1..Len(cars) : ClientReadsCar(c)

(***************************************************************************)
(* Bridge: RemoteControl over the Device implementations TV and Radio.     *)
(***************************************************************************)
InitBridge ==
    /\ devices = <<>>
    /\ remotes = <<>>
    /\ powered = <<>>
    /\ turned = <<>>

\* TV() and Radio().
Device__init__(class) ==
    /\ Len(devices) < MaxDevices
    /\ devices' = Append(devices, class)
    /\ UNCHANGED <<remotes, powered, turned, notBridge>>

\* RemoteControl(device).
RemoteControl__init__(device) ==
    /\ Len(remotes) < MaxRemotes
    /\ remotes' = Append(remotes, [device |-> device])
    /\ UNCHANGED <<devices, powered, turned, notBridge>>

\* TV.turn_on and Radio.turn_on: the call as the device receives it.
Device_turn_on(d) ==
    [device |-> d, method |-> "turn_on",
     line |-> IF devices[d] = "TV" THEN "Turning on the TV"
                                   ELSE "Turning on the radio"]

\* TV.turn_off and Radio.turn_off.
Device_turn_off(d) ==
    [device |-> d, method |-> "turn_off",
     line |-> IF devices[d] = "TV" THEN "Turning off the TV"
                                   ELSE "Turning off the radio"]

\* remote.power_on().
RemoteControl_power_on(r) ==
    /\ Len(powered) < MaxPowerCalls
    /\ powered' = Append(powered, [remote |-> r, method |-> "power_on"])
    /\ turned' = Append(turned, Device_turn_on(remotes[r].device))
    /\ UNCHANGED <<devices, remotes, notBridge>>

\* A faulty power_off that remembers the state: it forwards nothing to a
\* device that this remote has not switched on since it last switched it off.
RemoteControl_power_off_Stateful(r) ==
    LET mine == {i \in 1..Len(powered) : powered[i].remote = r}
        last == IF mine = {} THEN 0 ELSE CHOOSE i \in mine : \A j \in mine : j <= i
        on == last # 0 /\ powered[last].method = "power_on"
    IN  /\ Len(powered) < MaxPowerCalls
        /\ powered' = Append(powered, [remote |-> r, method |-> "power_off"])
        /\ turned' = IF on THEN Append(turned, Device_turn_off(remotes[r].device))
                     ELSE turned
        /\ UNCHANGED <<devices, remotes, notBridge>>

\* remote.power_off().
RemoteControl_power_off(r) ==
    /\ Len(powered) < MaxPowerCalls
    /\ powered' = Append(powered, [remote |-> r, method |-> "power_off"])
    /\ turned' = Append(turned, Device_turn_off(remotes[r].device))
    /\ UNCHANGED <<devices, remotes, notBridge>>

NextBridge ==
    \/ \E class \in {"TV", "Radio"} : Device__init__(class)
    \/ \E d \in 1..Len(devices) : RemoteControl__init__(d)
    \/ \E r \in 1..Len(remotes) : RemoteControl_power_on(r)
    \/ \E r \in 1..Len(remotes) : RemoteControl_power_off(r)

(***************************************************************************)
(* Singleton under threads: Logger.__new__ taken one step at a time, a     *)
(* thread switch being possible between any two of its steps.              *)
(***************************************************************************)
InitThreads ==
    /\ threads = [t \in 1..MaxThreads |->
                     [pc |-> "idle", calls |-> 0, file |-> None, result |-> None]]
    /\ shared = None
    /\ made = <<>>
    /\ opens = 0

\* Thread t calls Logger().
ThreadCalls(t) ==
    /\ threads[t].pc = "idle"
    /\ threads[t].calls < MaxThreadCalls
    /\ threads' = [threads EXCEPT ![t].pc = "test", ![t].calls = @ + 1]
    /\ UNCHANGED <<shared, made, opens, notThread>>

\* if cls._instance is None:
ThreadTests(t) ==
    /\ threads[t].pc = "test"
    /\ threads' = [threads EXCEPT ![t].pc = IF shared = None THEN "create" ELSE "return"]
    /\ UNCHANGED <<shared, made, opens, notThread>>

\* cls._instance = super().__new__(cls)
ThreadCreates(t) ==
    /\ threads[t].pc = "create"
    /\ made' = Append(made, [_log_file |-> None])
    /\ shared' = Len(made) + 1
    /\ threads' = [threads EXCEPT ![t].pc = "open"]
    /\ UNCHANGED <<opens, notThread>>

\* open("application.log", "a"): the right-hand side of the assignment.
ThreadOpens(t) ==
    /\ threads[t].pc = "open"
    /\ opens' = opens + 1
    /\ threads' = [threads EXCEPT ![t].pc = "attach", ![t].file = opens + 1]
    /\ UNCHANGED <<shared, made, notThread>>

\* cls._instance._log_file = <the file object>
ThreadAttaches(t) ==
    /\ threads[t].pc = "attach"
    /\ made' = [made EXCEPT ![shared]._log_file = threads[t].file]
    /\ threads' = [threads EXCEPT ![t].pc = "return", ![t].file = None]
    /\ UNCHANGED <<shared, opens, notThread>>

\* return cls._instance
ThreadReturns(t) ==
    /\ threads[t].pc = "return"
    /\ threads' = [threads EXCEPT ![t].pc = "idle", ![t].result = shared]
    /\ UNCHANGED <<shared, made, opens, notThread>>

NextThreads ==
    \E t \in 1..MaxThreads :
        \/ ThreadCalls(t)
        \/ ThreadTests(t)
        \/ ThreadCreates(t)
        \/ ThreadOpens(t)
        \/ ThreadAttaches(t)
        \/ ThreadReturns(t)

(***************************************************************************)
(* The specifications: one per example.                                    *)
(***************************************************************************)
Init ==
    /\ InitLogger
    /\ InitVideo
    /\ InitPublish
    /\ InitProto
    /\ InitSubject
    /\ InitFs
    /\ InitBeverage
    /\ InitHiring
    /\ InitAdapter
    /\ InitMeal
    /\ InitNews
    /\ InitObservable
    /\ InitCar
    /\ InitBridge
    /\ InitThreads

\* The initial states in which application.log does not exist: the ones the
\* examples other than the Singleton's start from.
InitNoLog == Init /\ ~disk.exists

SpecLogger == Init /\ [][NextLogger]_vars

SpecVideo == InitNoLog /\ [][NextVideo]_vars

SpecPublish == InitNoLog /\ [][NextPublish]_vars

SpecProto == InitNoLog /\ [][NextProto]_vars

SpecSubject == InitNoLog /\ [][NextSubject]_vars

SpecFs == InitNoLog /\ [][NextFs]_vars

SpecBeverage == InitNoLog /\ [][NextBeverage]_vars

SpecHiring == InitNoLog /\ [][NextHiring]_vars

SpecAdapter == InitNoLog /\ [][NextAdapter]_vars

SpecMeal == InitNoLog /\ [][NextMeal]_vars

SpecNews == InitNoLog /\ [][NextNews]_vars

SpecObservable == InitNoLog /\ [][NextObservable]_vars

SpecCar == InitNoLog /\ [][NextCar]_vars

SpecBridge == InitNoLog /\ [][NextBridge]_vars

SpecThreads == InitNoLog /\ [][NextThreads]_vars

(***************************************************************************)
(* Properties of the Singleton example, checked under SpecLogger.          *)
(***************************************************************************)
\* C1: every Logger() call of a process returns the same object, and
\* Logger._instance, once set, is not replaced while the process lives.
C1_SingletonIdentity ==
    /\ [](\A i, j \in 1..Len(refs) : refs[i] = refs[j])
    /\ [][(instance # None /\ Len(runStart') = Len(runStart))
             => instance' = instance]_vars

\* Two Logger() calls have returned (the same object).
C1_Witness == Len(refs) >= 2 /\ refs[1] = refs[2] /\ refs[1] = instance

C8_SharedLogInOrder ==
    /\ Len(files) <= 1
    /\ \A i \in 1..Len(refs) :
          "log_file" \in DOMAIN loggers[refs[i]] => loggers[refs[i]].log_file = 1
    /\ Len(files) = 0 => logged = <<>>
    /\ Len(files) = 1 =>
          disk.content \o files[1].buffer
            = runStart[Len(runStart)].content \o Lines(logged)

\* Two different messages were logged, one through each of two references.
C8_Witness ==
    /\ Len(logged) = 2
    /\ logged[1].via = 1 /\ logged[2].via = 2
    /\ logged[1].message # logged[2].message

PlaysOf(p) == Cardinality({k \in 1..Len(playCalls) : playCalls[k] = p})

\* What was printed on behalf of proxy p, in order.
EventsBy(p) == SelectSeq(output, LAMBDA e : e.by = p)

\* The printed lines of one kind on behalf of proxy p.
CountBy(p, event) ==
    Cardinality({k \in 1..Len(output) : output[k].by = p /\ output[k].event = event})

\* C9: a proxy that has not been played holds no RealVideo and has loaded
\* nothing; every RealVideo belongs to a proxy that has been played; the
\* first play() loads and then plays; no video plays before it was loaded.
C9_LazyLoading ==
    /\ \A p \in 1..Len(proxies) :
          /\ PlaysOf(p) = 0 => proxies[p].real_video = None /\ EventsBy(p) = <<>>
          /\ PlaysOf(p) > 0 =>
                /\ proxies[p].real_video # None
                /\ Len(EventsBy(p)) >= 2
                /\ EventsBy(p)[1].event = "Loading"
                /\ EventsBy(p)[2].event = "Playing"
    /\ \A v \in 1..Len(videos) :
          \E p \in 1..Len(proxies) : proxies[p].real_video = v /\ PlaysOf(p) > 0
    /\ \A k \in 1..Len(output) :
          output[k].event = "Playing" =>
            \E j \in 1..(k - 1) :
               output[j].event = "Loading" /\ output[j].video = output[k].video

\* One proxy has been played and another, constructed before it, has not.
C9_Witness ==
    /\ Len(proxies) = 2
    /\ PlaysOf(1) = 0 /\ PlaysOf(2) = 1
    /\ Len(videos) = 1

\* C10: a proxy played n >= 1 times has created one RealVideo (one load),
\* and RealVideo.play ran n times, always on that video, whose file name is
\* the proxy's.
C10_LoadsOnce ==
    /\ \A p \in 1..Len(proxies) :
          PlaysOf(p) >= 1 =>
            /\ CountBy(p, "Loading") = 1
            /\ CountBy(p, "Playing") = PlaysOf(p)
            /\ \A k \in 1..Len(EventsBy(p)) :
                  /\ EventsBy(p)[k].video = proxies[p].real_video
                  /\ EventsBy(p)[k].filename = proxies[p].filename
            /\ videos[proxies[p].real_video].filename = proxies[p].filename
    /\ Len(videos) = Cardinality({p \in 1..Len(proxies) : PlaysOf(p) >= 1})

\* One proxy was played three times, another once.
C10_Witness ==
    \E p, q \in 1..Len(proxies) :
       p # q /\ PlaysOf(p) = 3 /\ PlaysOf(q) = 1 /\ Len(videos) = 2

(***************************************************************************)
(* Properties of the publishing workflow, checked under SpecPublish.       *)
(***************************************************************************)
\* The steps run r has started, in order.
Started(r) ==
    LET ev == SelectSeq(runs[r].log, LAMBDA e : e.what = "start")
    IN  [k \in 1..Len(ev) |-> ev[k].step]

\* The event [step, what] is in the log of run r at a place before k.
LoggedBefore(r, k, step, what) ==
    \E j \in 1..(k - 1) : runs[r].log[j] = [step |-> step, what |-> what]

\* The pushes to a branch that triggers the workflow.
TriggerPushes == {k \in 1..Len(pushes) : pushes[k] \in TriggerBranches}

\* C5: the runs are those of the pushes to main, one each; the job of a run
\* starts its steps in the order of the file, each after the one before it
\* has succeeded; the deployment step starts only after the site build and
\* the artifact upload of the same run have succeeded.
C5_StepOrder ==
    /\ {runs[r].push : r \in 1..Len(runs)} = TriggerPushes
    /\ Len(runs) = Cardinality(TriggerPushes)
    /\ \A r \in 1..Len(runs) :
          /\ Started(r) = SubSeq(Steps, 1, Len(Started(r)))
          /\ \A k \in 1..Len(runs[r].log) :
                LET e == runs[r].log[k]
                IN  /\ (e.what = "start" /\ k > 1) => runs[r].log[k - 1].what = "ok"
                    /\ (e.what = "start" /\ e.step = DeployStep) =>
                          /\ LoggedBefore(r, k, "Build HTML", "ok")
                          /\ LoggedBefore(r, k, "Upload artifact", "ok")

\* A run has gone through its six steps and deployed.
C5_Witness ==
    \E r \in 1..Len(runs) :
       /\ runs[r].status = "success"
       /\ Started(r) = Steps
       /\ deployments = <<r>>

\* C6: a run one of whose steps before the deployment has failed is failed,
\* has not started the deployment step and has deployed nothing.
C6_FailureStopsDeployment ==
    \A r \in 1..Len(runs) :
       (\E k \in 1..Len(runs[r].log) :
           runs[r].log[k].what = "fail" /\ runs[r].log[k].step # DeployStep)
       => /\ runs[r].status = "failure"
          /\ \A k \in 1..Len(runs[r].log) : runs[r].log[k].step # DeployStep
          /\ \A d \in 1..Len(deployments) : deployments[d] # r

\* The build of one run has failed, and a later run has deployed.
C6_Witness ==
    \E r, q \in 1..Len(runs) :
       /\ runs[r].status = "failure"
       /\ runs[r].log[Len(runs[r].log)] = [step |-> "Build HTML", what |-> "fail"]
       /\ q > r /\ deployments = <<q>>

(***************************************************************************)
(* Properties of the Prototype example, checked under SpecProto.           *)
(***************************************************************************)
\* C2: the object clone() returns has, when clone() returns, the name and
\* the price its source had when clone() was called.
C2_CloneEquality ==
    [][lastOp'.op = "clone" =>
         View(products', lists', lastOp'.result) = View(products, lists, lastOp'.target)]_vars

\* A product whose name is a list and whose price had been changed has been cloned.
C2_Witness ==
    /\ lastOp.op = "clone"
    /\ IsList(products[lastOp.target].name)
    /\ products[lastOp.target].price = [atom |-> "700"]
    /\ products[lastOp.result].price = [atom |-> "700"]

\* C3: clone() returns an object other than its source; a change of an
\* attribute of the clone (a new value, or a change of the value in place)
\* leaves what the source shows unchanged, and a change of the source leaves
\* what the clone shows unchanged.
C3_CloneIndependence ==
    /\ [](\A c \in 1..Len(clones) : clones[c].dst # clones[c].src)
    /\ [][lastOp'.op \in {"set", "append"} =>
            \A c \in 1..Len(clones) :
               /\ lastOp'.target = clones[c].dst =>
                     View(products', lists', clones[c].src)
                       = View(products, lists, clones[c].src)
               /\ lastOp'.target = clones[c].src =>
                     View(products', lists', clones[c].dst)
                       = View(products, lists, clones[c].dst)]_vars

\* After a clone() the list that is the clone's name was changed in place,
\* and the source's name still has its one element.
C3_Witness ==
    /\ lastOp.op = "append"
    /\ \E c \in 1..Len(clones) :
          /\ lastOp.target = clones[c].dst
          /\ IsList(products[clones[c].dst].name)
          /\ Len(lists[products[clones[c].dst].name.ref]) = 2
          /\ Len(lists[products[clones[c].src].name.ref]) = 1

(***************************************************************************)
(* Properties of the access-control proxy, checked under SpecSubject.      *)
(***************************************************************************)
\* The positions of the output printed during the client's call c.
PrintedIn(c) == {k \in 1..Len(printed) : printed[k].call = c}

\* C11: each Proxy.request() call prints, in this order and next to each
\* other, the proxy's access check, one handling line of the real subject the
\* proxy wraps, and the proxy's access log; hence the real subject handles no
\* forwarded request without the check before it and the log after it.
C11_ProxyCallOrder ==
    \A c \in 1..Len(requests) :
        requests[c].on = "Proxy" =>
            LET p == requests[c].obj
            IN  \E k \in 1..Len(printed) :
                    /\ PrintedIn(c) = {k, k + 1, k + 2}
                    /\ printed[k].line = "Proxy: Checking access prior to firing a real request"
                    /\ printed[k].obj = p
                    /\ printed[k + 1].line = "RealSubject: Handling request"
                    /\ printed[k + 1].obj = guards[p].real_subject
                    /\ printed[k + 2].line = "Proxy: Logging the time of request"
                    /\ printed[k + 2].obj = p

\* Two proxies of the same real subject and one direct call: three calls done.
C11_Witness ==
    /\ Len(requests) = 3
    /\ \E c, d \in 1..3 :
           /\ requests[c].on = "Proxy" /\ requests[d].on = "Proxy"
           /\ requests[c].obj # requests[d].obj
    /\ \E c \in 1..3 : requests[c].on = "RealSubject"
    /\ Len(printed) = 7

(***************************************************************************)
(* Properties of the Composite example, checked under SpecFs.              *)
(***************************************************************************)
\* The children of an object: a file has none.
ChildrenOf(c) ==
    IF components[c].kind = "Directory" THEN components[c].components ELSE <<>>

RECURSIVE Closure(_)
\* The objects reachable from the set S through children lists, S included.
Closure(S) ==
    LET T == S \cup UNION {{ChildrenOf(c)[i] : i \in 1..Len(ChildrenOf(c))} : c \in S}
    IN  IF T = S THEN S ELSE Closure(T)

Under(c) == Closure({c})

\* The structure under c is a tree: c is in no children list under c and every
\* other object under c is in exactly one, once.
IsTree(c) ==
    \A n \in Under(c) :
        Cardinality({pi \in Under(c) \X (1..MaxAdds) :
                         /\ pi[2] <= Len(ChildrenOf(pi[1]))
                         /\ ChildrenOf(pi[1])[pi[2]] = n})
            = IF n = c THEN 0 ELSE 1

\* The children of directory d in the order in which they were added: in the
\* order of the last d.add(n) call of each child n.
ChildrenAsAdded(d) ==
    LET ch == {ChildrenOf(d)[i] : i \in 1..Len(ChildrenOf(d))}
        lastAdd(n) == CHOOSE k \in 1..Len(added) :
                          /\ added[k] = [dir |-> d, component |-> n]
                          /\ \A j \in (k + 1)..Len(added) : added[j] # added[k]
    IN  CHOOSE q \in [1..Cardinality(ch) -> ch] :
            \A i, j \in 1..Cardinality(ch) : i < j => lastAdd(q[i]) < lastAdd(q[j])

\* The lines are the pre-order listing of the tree under c, children in the
\* order they were added: every object under c has exactly one line, the
\* first line is c's, a directory's line is followed at once by the lines of
\* its first child's subtree, and each later child's subtree follows the one
\* of the child before it.
IsPreorder(lines, c) ==
    LET pos(n) == CHOOSE k \in 1..Len(lines) : lines[k].id = n
    IN  /\ Len(lines) = Cardinality(Under(c))
        /\ {lines[k].id : k \in 1..Len(lines)} = Under(c)
        /\ lines[1].id = c
        /\ \A k \in 1..Len(lines) : lines[k] = LineOf(lines[k].id)
        /\ \A d \in Under(c) :
               LET ch == ChildrenAsAdded(d)
               IN  \A i \in 1..Len(ch) :
                       pos(ch[i]) = IF i = 1
                                    THEN pos(d) + 1
                                    ELSE pos(ch[i - 1]) + Cardinality(Under(ch[i - 1]))

\* C12: a show_details() call on the root of a tree prints the directory's own
\* line first and then each child's details in the order the children were
\* added, recursively; every directory and file under the root has exactly
\* one line.
C12_PreorderTraversal ==
    [][\A c \in 1..Len(components) :
           (fsCalls'.show = fsCalls.show + 1 /\ shown'.root = c /\ IsTree(c))
               => fsResult' = "ok" /\ IsPreorder(shown'.lines, c)]_vars

\* The tree root{home{file}, file} has been shown: four lines, the root's
\* second child last.
C12_Witness ==
    /\ shown.root # None
    /\ fsResult = "ok"
    /\ Len(shown.lines) = 4
    /\ IsTree(shown.root)
    /\ Len(ChildrenOf(shown.root)) = 2
    /\ Len(ChildrenOf(ChildrenOf(shown.root)[1])) = 1
    /\ shown.lines[4].id = ChildrenOf(shown.root)[2]

(***************************************************************************)
(* Properties of the Decorator example, checked under SpecBeverage.        *)
(***************************************************************************)
RECURSIVE StackOf(_)
\* The beverage b and everything it wraps, directly or not.
StackOf(b) ==
    IF beverages[b].kind = "Espresso" THEN {b}
    ELSE {b} \cup StackOf(beverages[b].beverage)

\* The decorators of kind `kind` in the stack of b.
WrappersOf(b, kind) == {w \in StackOf(b) : beverages[w].kind = kind}

\* The stack of b from the innermost object to the outermost: a decorator
\* wraps an object constructed before it.
InnermostFirst(b) ==
    CHOOSE q \in [1..Cardinality(StackOf(b)) -> StackOf(b)] :
        \A i, j \in 1..Cardinality(StackOf(b)) : i < j => q[i] < q[j]

\* What each class adds to the description.
WordOf(kind) ==
    IF kind = "Espresso" THEN <<"E", "s", "p", "r", "e", "s", "s", "o">>
    ELSE IF kind = "MilkDecorator" THEN <<",", " ", "M", "i", "l", "k">>
    ELSE <<",", " ", "M", "o", "c", "h", "a">>

C14_FactorySelection ==
    \A h \in 1..Len(hired) :
        LET e == employees[hired[h].employee]
        IN  /\ e.class = IF hired[h].manager = "HRManager" THEN "FullTimeEmployee"
                         ELSE IF hired[h].salary < 50000 THEN "PartTimeEmployee"
                         ELSE "Contractor"
            /\ e.name = hired[h].name
            /\ e.salary = hired[h].salary
            /\ DOMAIN e = {"class", "name", "salary"}

\* The recruiter has hired at 49999 and at exactly 50000.
C14_Witness ==
    /\ \E h \in 1..Len(hired) :
           /\ hired[h].manager = "Recruiter" /\ hired[h].salary = 50000
           /\ employees[hired[h].employee].class = "Contractor"
    /\ \E h \in 1..Len(hired) :
           /\ hired[h].manager = "Recruiter" /\ hired[h].salary = 49999
           /\ employees[hired[h].employee].class = "PartTimeEmployee"

\* C15: calculate_bonus() returns 10% of the salary for a FullTimeEmployee
\* (the float nearest to salary / 10), 5% of the salary for a
\* PartTimeEmployee (the float nearest to salary / 20) and 0 for a
\* Contractor; type_name() returns the name of the employee's class.
C15_BonusIsPercentage ==
    bonus.employee # None =>
        LET e == employees[bonus.employee]
        IN  /\ bonus.type_name = e.class
            /\ e.class = "FullTimeEmployee" =>
                   bonus.bonus = [type |-> "float", value |-> Float(e.salary, 10)]
            /\ e.class = "PartTimeEmployee" =>
                   bonus.bonus = [type |-> "float", value |-> Float(e.salary, 20)]
            /\ e.class = "Contractor" => bonus.bonus = [type |-> "int", value |-> 0]

(***************************************************************************)
(* Properties of the Adapter examples, checked under SpecAdapter.          *)
(***************************************************************************)
\* The object an adapter wraps.
WrappedBy(a) ==
    IF adapters[a].class = "Adapter" THEN adapters[a].adaptee
    ELSE adapters[a].european_socket

\* C16: a call of Adapter.request() returns "Response from Adaptee", the
\* value of its adaptee's specific_request(); a call of
\* SocketAdapter.request_power() returns "Converted European power to US
\* power"; the call invokes the wrapped object once, no other object, and
\* changes no adapter and no adaptee.
C16_AdapterTranslation ==
    [][Len(answers') = Len(answers) + 1 =>
           LET call == answers'[Len(answers')]
               a    == call.adapter
           IN  /\ adapters[a].class = "Adapter" =>
                      call.value = <<"R", "e", "s", "p", "o", "n", "s", "e", " ",
                                "f", "r", "o", "m", " ", "A", "d", "a", "p",
                                "t", "e", "e">>
               /\ adapters[a].class = "SocketAdapter" =>
                      call.value = <<"C", "o", "n", "v", "e", "r", "t", "e", "d",
                                " ", "E", "u", "r", "o", "p", "e", "a", "n",
                                " ", "p", "o", "w", "e", "r", " ", "t", "o",
                                " ", "U", "S", " ", "p", "o", "w", "e", "r">>
               /\ \A o \in 1..Len(invoked) :
                      invoked'[o] = invoked[o] + IF o = WrappedBy(a) THEN 1 ELSE 0
               /\ adapters' = adapters
               /\ adaptees' = adaptees]_vars

\* Both kinds of adapter have answered the client.
C16_Witness ==
    /\ \E k \in 1..Len(answers) : adapters[answers[k].adapter].class = "Adapter"
    /\ \E k \in 1..Len(answers) :
           /\ adapters[answers[k].adapter].class = "SocketAdapter"
           /\ Len(answers[k].value) = 36
    /\ \E o \in 1..Len(invoked) : invoked[o] = 2

(***************************************************************************)
(* Properties of the Builder example, checked under SpecMeal.              *)
(***************************************************************************)
\* C17: every meal that prepare_veg_meal() returned has the parts Salad,
\* Vegetable Curry, Rice and every meal that prepare_non_veg_meal() returned
\* has the parts Chicken Soup, Grilled Chicken, Chicken Tikka, at the same
\* time, whatever calls have been made since.
C17_DifferentRepresentations ==
    \A k \in 1..Len(meals) :
        mealProducts[meals[k].product] =
            IF meals[k].method = "prepare_veg_meal"
            THEN [part1 |-> <<"Salad">>, part2 |-> <<"Vegetable Curry">>,
                  part3 |-> <<"Rice">>]
            ELSE [part1 |-> <<"Chicken Soup">>, part2 |-> <<"Grilled Chicken">>,
                  part3 |-> <<"Chicken Tikka">>]

(***************************************************************************)
(* Properties of the Observer example, checked under SpecNews.             *)
(***************************************************************************)
\* The calls before call k that register or remove observer obs.
CallsOn(obs, k) ==
    {i \in 1..(k - 1) : newsCalls[i].obs = obs /\ newsCalls[i].op # "freshNewsAvailable"}

\* The last call before call k that registers or removes obs (0: there is none).
LastCallOn(obs, k) ==
    IF CallsOn(obs, k) = {} THEN 0
    ELSE CHOOSE i \in CallsOn(obs, k) : \A j \in CallsOn(obs, k) : j <= i

\* Observer obs is registered when call k is made: it has been added by
\* registerObserver and not removed since.
RegisteredAt(obs, k) ==
    /\ LastCallOn(obs, k) # 0
    /\ newsCalls[LastCallOn(obs, k)].op = "registerObserver"

\* The positions in updates of the update() calls that call k made on obs.
UpdatesOf(obs, k) ==
    {u \in 1..Len(updates) : updates[u].call = k /\ updates[u].obs = obs}

\* The freshNewsAvailable calls so far.
FreshCalls == {k \in 1..Len(newsCalls) : newsCalls[k].op = "freshNewsAvailable"}

\* C18: each freshNewsAvailable() call calls update() on every observer that
\* is registered at that moment and on no other observer, and observers that
\* it updates once each are updated in the order of their registrations.
C18_NotifiesTheRegistered ==
    \A k \in FreshCalls :
        /\ \A obs \in 1..observers : RegisteredAt(obs, k) <=> UpdatesOf(obs, k) # {}
        /\ \A a, b \in 1..observers :
               (/\ Cardinality(UpdatesOf(a, k)) = 1
                /\ Cardinality(UpdatesOf(b, k)) = 1
                /\ LastCallOn(a, k) < LastCallOn(b, k))
                   => \A u \in UpdatesOf(a, k), v \in UpdatesOf(b, k) : u < v

\* C19: an observer whose last registerObserver/removeObserver call before a
\* freshNewsAvailable() call is removeObserver gets no update() from it.
C19_UnsubscribedSeesNoNews ==
    \A k \in FreshCalls :
        \A obs \in 1..observers :
            (/\ LastCallOn(obs, k) # 0
             /\ newsCalls[LastCallOn(obs, k)].op = "removeObserver")
                => \A u \in 1..Len(updates) :
                       ~(updates[u].call = k /\ updates[u].obs = obs)

(***************************************************************************)
(* Properties of the Observable pseudo-code, checked under SpecObservable. *)
(***************************************************************************)
\* C20: a notifyObservers call calls update() only when setChanged() has
\* been called after the notifyObservers call before it (or, for the first
\* one, at all), and the flag is clear after a notifyObservers call.
C20_NotifiesOnlyWhenChanged ==
    /\ \A k \in 1..Len(observableCalls) :
           observableCalls[k].updated # {} =>
               \E j \in 1..(k - 1) :
                   /\ observableCalls[j].op = "setChanged"
                   /\ \A i \in (j + 1)..(k - 1) :
                          observableCalls[i].op # "notifyObservers"
    /\ (/\ observableCalls # <<>>
        /\ observableCalls[Len(observableCalls)].op = "notifyObservers")
           => ~changed

(***************************************************************************)
(* Properties of the Strategy example, checked under SpecCar.              *)
(***************************************************************************)
\* The last of the first n setter calls that is an `op` call on car c (0: none).
LastSet(c, op, n) ==
    LET S == {i \in 1..n : carCalls[i].car = c /\ carCalls[i].op = op}
    IN  IF S = {} THEN 0 ELSE CHOOSE i \in S : \A j \in S : j <= i

\* C21: getFuelType() returns the value of the FuelType set last ("Petrol"
\* when none was set) and numberOfSeats() the value of the SeatNumber set last
\* (4 when none was set).
C21_ReadsTheLastSet ==
    carRead.car # None =>
        LET f == LastSet(carRead.car, "setFuelType", carRead.at)
            s == LastSet(carRead.car, "setSeatNumber", carRead.at)
        IN  /\ carRead.fuelType = IF f = 0 THEN "Petrol" ELSE carCalls[f].arg
            /\ carRead.seats = IF s = 0 THEN 4
                               ELSE IF carCalls[s].arg = "TwoSeater" THEN 2 ELSE 4

\* A car was given Diesel and then two seats, and read afterwards.
C21_Witness ==
    /\ carRead.car # None
    /\ carRead.fuelType = "Diesel"
    /\ carRead.seats = 2
    /\ carRead.at >= 2
    /\ carCalls[carRead.at].op = "setFuelType"
    /\ carCalls[carRead.at].car = carRead.car

(***************************************************************************)
(* Properties of the Bridge example, checked under SpecBridge.             *)
(***************************************************************************)
\* C22: the i-th call on a remote is forwarded as exactly one call, the i-th
\* received by any device: turn_on for power_on and turn_off for power_off, on
\* the device the remote was constructed with; whatever the order of the calls.
C22_ForwardsEachCallOnce ==
    /\ Len(turned) = Len(powered)
    /\ \A i \in 1..Len(powered) :
        /\ turned[i].device = remotes[powered[i].remote].device
        /\ turned[i].method =
               IF powered[i].method = "power_on" THEN "turn_on" ELSE "turn_off"
        /\ turned[i].line =
               IF devices[turned[i].device] = "TV"
               THEN (IF powered[i].method = "power_on" THEN "Turning on the TV"
                                                       ELSE "Turning off the TV")
               ELSE (IF powered[i].method = "power_on" THEN "Turning on the radio"
                                                       ELSE "Turning off the radio")

\* A radio's remote switched off first and then on twice, a TV existing too.
C22_Witness ==
    /\ Len(powered) = 3
    /\ Len(devices) = 2
    /\ devices[1] = "TV"
    /\ devices[2] = "Radio"
    /\ \A i \in 1..3 : remotes[powered[i].remote].device = 2
    /\ powered[1].method = "power_off"
    /\ powered[2].method = "power_on"
    /\ powered[3].method = "power_on"
    /\ turned[1].line = "Turning off the radio"

(***************************************************************************)
(* Builder aliasing, checked under SpecMeal.                               *)
(***************************************************************************)
\* The last call made on meal builder mb (0: there is none).
LastMealBy(mb) ==
    LET S == {k \in 1..Len(meals) : meals[k].by = mb}
    IN  IF S = {} THEN 0 ELSE CHOOSE k \in S : \A j \in S : j <= k

C24_OneInstanceUnderInterleaving ==
    /\ Len(made) <= 1
    /\ opens <= 1
    /\ \A t, u \in 1..MaxThreads :
        (threads[t].result # None /\ threads[u].result # None) =>
            threads[t].result = threads[u].result

(***************************************************************************)
(* Singleton: failure and close, checked under SpecLogger.                 *)
(***************************************************************************)
\* C25: a Logger() call in which open() fails records no instance in
\* _instance, so the object in _instance, and every object Logger() has
\* returned, has the attribute _log_file.
C25_FailedOpenRecordsNoInstance ==
    /\ lastResult = "OSError" => instance = None
    /\ instance # None => "log_file" \in DOMAIN loggers[instance]
    /\ \A i \in 1..Len(refs) : "log_file" \in DOMAIN loggers[refs[i]]

\* C26: once the log file is closed, no step of the same process changes
\* _instance, opens a file, reopens the closed one or writes a message: a
\* Logger() call returns the instance there is and a log() call fails.
C26_ClosedForTheRestOfTheProcess ==
    [][((\E h \in 1..Len(files) : files[h].closed) /\ Len(runStart') = Len(runStart)) =>
          /\ instance' = instance
          /\ loggers' = loggers
          /\ files' = files
          /\ openedBy' = openedBy
          /\ logged' = logged
          /\ disk' = disk
          /\ refs' # refs => refs' = Append(refs, instance)
          /\ lastResult' \in {"ok", "ValueError"}]_vars

\* The file is closed, Logger() has been called twice and the last log() failed.
C26_Witness ==
    /\ Len(files) = 1
    /\ files[1].closed
    /\ refs = <<instance, instance>>
    /\ lastResult = "ValueError"

(***************************************************************************)
(* Composite: round trip and termination, checked under SpecFs.            *)
(***************************************************************************)
\* C27: for every directory d, whatever its children list, and every
\* component c, the list after d.add(c) and then d.remove(c) is the list
\* before the two calls.
C27_AddRemoveRoundTrip ==
    \A d \in Directories, c \in 1..Len(components) :
        ListRemove(Append(components[d].components, c), c) = components[d].components

\* C28: no show_details() call runs into endless recursion, and no directory
\* is reachable from itself through the children lists.
C28_ShowDetailsTerminates ==
    /\ fsResult # "RecursionError"
    /\ \A d \in Directories : \A i \in 1..Len(ChildrenOf(d)) :
           d \notin Under(ChildrenOf(d)[i])

(***************************************************************************)
(* Serialization of the publish workflow's runs, checked under SpecPublish. *)
(***************************************************************************)
\* C29: at most one run is in progress at any time, and no step, a push
\* among them, cancels a run that is in progress.
C29_OneRunAtATime ==
    [][/\ Cardinality(InProgress') <= 1
       /\ \A r \in InProgress : runs'[r].status # "cancelled"]_vars

\* Three pushes to main while the first run is in progress: the first run goes
\* on, the second was waiting and is cancelled, the third waits.
C29_Witness ==
    /\ Len(runs) = 3
    /\ runs[1].status = "in_progress"
    /\ runs[1].step >= 1
    /\ runs[2].status = "cancelled"
    /\ runs[3].status = "pending"

====
